---- MODULE Spec2Model ----
(***************************************************************************)
(* Block world, blueprint engine and structure ingestion of Blockwright    *)
(* (src/js/app.js).                                                        *)
(*                                                                         *)
(* Numbers: every JavaScript number of the model is an integer count of    *)
(* tenths (5.5 is 55, the water level 2.0 is 20), so that cell centres     *)
(* (n + 0.5), Math.round's half-up rule and the 0.8 / 2.5 thresholds are   *)
(* exact.  The IEEE value Infinity, which JSON.parse yields for a literal  *)
(* such as 1e999, is the value Infinity below.                             *)
(***************************************************************************)
EXTENDS Integers, Sequences, FiniteSets, Bags, TLC

VARIABLES
    placedBlocks,        \* Map "x,y,z" -> mesh                     (app.js:103)
    blockGroup,          \* children of the THREE.Group 'blocks'    (app.js:98)
    selectedSlot,        \* hotbar slot                             (app.js:97)
    blueprintBlocks,     \* accepted block list                     (app.js:256)
    blueprintGroup,      \* ghost group, or null                    (app.js:257)
    blueprintRotation,   \* 0..3                                    (app.js:258)
    blueprintActive,     \*                                         (app.js:259)
    sceneGhostGroups,    \* blueprint ghost groups attached to the scene
    fpMode,              \*                                         (app.js:60)
    isLocked,            \* fpControls.isLocked
    camera,              \* camera.position (x, z) and horizontal forward
    currentLandscape,    \* seed of the current landscape           (app.js:851)
    aiLoading,           \* Build button disabled / loading shown   (app.js:316)
    inFlight,            \* generateStructure calls suspended at their await
    ghostVisible,        \* ghostMesh.visible                       (app.js:129)
    probe,               \* argument and result of a function applied on its own
    last                 \* the handler that ran last, with its inputs and result

vars == <<placedBlocks, blockGroup, selectedSlot, blueprintBlocks, blueprintGroup,
          blueprintRotation, blueprintActive, sceneGhostGroups, fpMode, isLocked,
          camera, currentLandscape, aiLoading, inFlight, ghostVisible,
          probe, last>>

-----------------------------------------------------------------------------
(* Bounds of the model *)

\* the block store holds at most this many blocks (placements are cut off beyond)
MaxStore == 2
\* single blocks are placed at most this many cells above the terrain's cell
MaxStack == 0
\* response arrays of the ingestion specification have at most this many entries
MaxEntries == 3
\* block lists of the rotation specification have at most this many blocks
MaxRotLen == 2
\* ghost groups attached to the scene (each double activation leaks one)
MaxSceneGroups == 1
\* placed blocks of the placement specification lie in cells -MaxCell..MaxCell
MaxCell == 1
\* block worlds of the click specification hold at most this many blocks
MaxClickStore == 2

-----------------------------------------------------------------------------
(* Program constants *)

\* BLOCK_TYPES.length
NumBlockTypes == 6
\* validated.length >= 500
MAX_BLOCKS == 500
\* the material given to an entry without a numeric type
DEFAULT_TYPE == 2
\* "Stay within 20x20x20 bounding box" (AI_SYSTEM_PROMPT)
CUBE_EXTENT == 20
\* const waterLevel = 2.0, in tenths
WATER_LEVEL == 20
\* blueprint is held 8 units ahead
BLUEPRINT_AHEAD == 8

\* aimRay.far = 12, in tenths
AIM_FAR == 120

-----------------------------------------------------------------------------
(* JavaScript numbers *)

Infinity == 2 ^ 30

IsFinite(v) == v < Infinity /\ v > -Infinity

\* a finite number with no fractional part
IsInteger(v) == IsFinite(v) /\ v % 10 = 0

JSNeg(v) == 0 - v

JSAdd(a, b) ==
    IF a = Infinity \/ b = Infinity THEN Infinity
    ELSE IF a = -Infinity \/ b = -Infinity THEN -Infinity
    ELSE a + b

\* Math.floor
MathFloor(v) == IF IsFinite(v) THEN (v \div 10) * 10 ELSE v

\* Math.round: floor(v + 0.5), halves go up
MathRound(v) == IF IsFinite(v) THEN ((v + 5) \div 10) * 10 ELSE v

MathMax(a, b) == IF a >= b THEN a ELSE b

MathMin(a, b) == IF a <= b THEN a ELSE b

-----------------------------------------------------------------------------
(* The application state as one record, so that a handler is an operator   *)
(* from state to state and can call the handlers it calls in the source.   *)

St ==
    [placedBlocks |-> placedBlocks, blockGroup |-> blockGroup,
     selectedSlot |-> selectedSlot, blueprintBlocks |-> blueprintBlocks,
     blueprintGroup |-> blueprintGroup, blueprintRotation |-> blueprintRotation,
     blueprintActive |-> blueprintActive, sceneGhostGroups |-> sceneGhostGroups,
     fpMode |-> fpMode, isLocked |-> isLocked, camera |-> camera,
     currentLandscape |-> currentLandscape, aiLoading |-> aiLoading,
     inFlight |-> inFlight, ghostVisible |-> ghostVisible]

\* the handler's resulting state s becomes the next state
Becomes(s) ==
    /\ placedBlocks' = s.placedBlocks
    /\ blockGroup' = s.blockGroup
    /\ selectedSlot' = s.selectedSlot
    /\ blueprintBlocks' = s.blueprintBlocks
    /\ blueprintGroup' = s.blueprintGroup
    /\ blueprintRotation' = s.blueprintRotation
    /\ blueprintActive' = s.blueprintActive
    /\ sceneGhostGroups' = s.sceneGhostGroups
    /\ fpMode' = s.fpMode
    /\ isLocked' = s.isLocked
    /\ camera' = s.camera
    /\ currentLandscape' = s.currentLandscape
    /\ aiLoading' = s.aiLoading
    /\ inFlight' = s.inFlight
    /\ ghostVisible' = s.ghostVisible

EmptyMap == [k \in {} |-> 0]

-----------------------------------------------------------------------------
(* Terrain queries *)

\* the terrain mesh of the landscape of a seed, as the height at which a
\* vertical ray meets it: a hill 2.4 high east of x = 10, a sea bed at 1.2
\* elsewhere
LandscapeHeight(seed, x, z) == IF x > 100 THEN 24 ELSE 12

getTerrainHeight(s, x, z) ==
    IF s.currentLandscape = 0 THEN 0 ELSE LandscapeHeight(s.currentLandscape, x, z)

-----------------------------------------------------------------------------
(* Block world *)

\* `${x},${y},${z}`: distinct number triples give distinct strings
blockKey(x, y, z) == <<x, y, z>>

snapToGrid(v) == JSAdd(MathFloor(v), 5)

\* new THREE.Mesh(blockGeo, blockMaterials[slot]) at (gx, gy, gz)
NewBlockMesh(gx, gy, gz, slot) ==
    [isBlock |-> TRUE, blockKey |-> blockKey(gx, gy, gz),
     position |-> <<gx, gy, gz>>, material |-> slot]

\* placeBlock without its occupancy check
placeBlockOverwrite(s, gx, gy, gz) ==
    LET key == blockKey(gx, gy, gz)
        mesh == NewBlockMesh(gx, gy, gz, s.selectedSlot)
    IN  [s EXCEPT !.blockGroup = @ (+) SetToBag({mesh}),
                  !.placedBlocks = [k \in DOMAIN @ \cup {key} |->
                                       IF k = key THEN mesh ELSE @[k]]]

placeBlock(s, gx, gy, gz) ==
    LET key == blockKey(gx, gy, gz)
        mesh == NewBlockMesh(gx, gy, gz, s.selectedSlot)
    IN  IF key \in DOMAIN s.placedBlocks
        THEN s
        ELSE [s EXCEPT !.blockGroup = @ (+) SetToBag({mesh}),
                       !.placedBlocks = @ @@ (key :> mesh)]

\* removeBlock that takes the mesh out of the group but keeps the map entry
removeBlockKeepEntry(s, mesh) ==
    IF ~mesh.isBlock
    THEN s
    ELSE [s EXCEPT !.blockGroup = @ (-) SetToBag({mesh})]

removeBlock(s, mesh) ==
    IF ~mesh.isBlock
    THEN s
    ELSE [s EXCEPT !.blockGroup = @ (-) SetToBag({mesh}),
                   !.placedBlocks =
                       [k \in DOMAIN @ \ {mesh.blockKey} |-> @[k]]]

\* clearAllBlocks that empties the map and leaves the meshes in the group
clearAllBlocksKeepMeshes(s) ==
    [s EXCEPT !.placedBlocks = EmptyMap]

clearAllBlocks(s) ==
    [s EXCEPT !.blockGroup = EmptyBag, !.placedBlocks = EmptyMap]

\* the terrain mesh, currentLandscape.children[0]: no userData.isBlock
TerrainMesh ==
    [isBlock |-> FALSE, blockKey |-> <<0, 0, 0>>, position |-> <<0, 0, 0>>,
     material |-> 0]

\* a raycast hit { point, face.normal (in world space), object }
Hit(pt, n, obj) == [point |-> pt, normal |-> n, object |-> obj]

\* getPlacementPos that forgets the face normal of a block hit
getPlacementPosNoNormal(hit) ==
    IF hit.object.isBlock
    THEN [x |-> JSAdd(MathFloor(hit.object.position[1]), 5),
          y |-> JSAdd(MathFloor(hit.object.position[2]), 5),
          z |-> JSAdd(MathFloor(hit.object.position[3]), 5)]
    ELSE [x |-> snapToGrid(hit.point[1]),
          y |-> snapToGrid(hit.point[2]),
          z |-> snapToGrid(hit.point[3])]

getPlacementPos(hit) ==
    IF hit.object.isBlock
    THEN [x |-> JSAdd(JSAdd(MathFloor(hit.object.position[1]), 5),
                      MathRound(hit.normal[1])),
          y |-> JSAdd(JSAdd(MathFloor(hit.object.position[2]), 5),
                      MathRound(hit.normal[2])),
          z |-> JSAdd(JSAdd(MathFloor(hit.object.position[3]), 5),
                      MathRound(hit.normal[3]))]
    ELSE [x |-> snapToGrid(hit.point[1]),
          y |-> snapToGrid(hit.point[2]),
          z |-> snapToGrid(hit.point[3])]

selectSlot(s, idx) ==
    [s EXCEPT !.selectedSlot = MathMax(0, MathMin(idx, NumBlockTypes - 1))]

-----------------------------------------------------------------------------
(* Blueprint engine *)

Block(x, y, z, t) == [x |-> x, y |-> y, z |-> z, type |-> t]

\* rotateBlocksCW turning the other way: {z, y, -x, type}
rotateBlocksCCW(blocks) ==
    [i \in 1..Len(blocks) |->
        Block(blocks[i].z, blocks[i].y, JSNeg(blocks[i].x), blocks[i].type)]

\* rotateBlocksCW with z taken from b.z instead of b.x
rotateBlocksTypo(blocks) ==
    [i \in 1..Len(blocks) |->
        Block(JSNeg(blocks[i].z), blocks[i].y, blocks[i].z, blocks[i].type)]

rotateBlocksCW(blocks) ==
    [i \in 1..Len(blocks) |->
        Block(JSNeg(blocks[i].z), blocks[i].y, blocks[i].x, blocks[i].type)]

RECURSIVE RotateTimes(_, _)
RotateTimes(blocks, n) ==
    IF n <= 0 THEN blocks ELSE RotateTimes(rotateBlocksCW(blocks), n - 1)

getRotatedBlocks(s) == RotateTimes(s.blueprintBlocks, s.blueprintRotation)

NullGroup == [isNull |-> TRUE, children |-> <<>>, position |-> <<0, 0, 0>>]

\* one ghost mesh per block, at the block's offset + 0.5; position (0,0,0)
createBlueprintGroup(blocks) ==
    [isNull |-> FALSE,
     children |-> [i \in 1..Len(blocks) |->
                     [position |-> <<JSAdd(blocks[i].x, 5), JSAdd(blocks[i].y, 5),
                                     JSAdd(blocks[i].z, 5)>>,
                      material |-> blocks[i].type]],
     position |-> <<0, 0, 0>>]

updateBlueprint(s) ==
    IF ~s.blueprintActive \/ s.blueprintGroup.isNull
    THEN s
    ELSE LET targetX == MathRound(s.camera.x + s.camera.fx * BLUEPRINT_AHEAD)
             targetZ == MathRound(s.camera.z + s.camera.fz * BLUEPRINT_AHEAD)
             groundY == getTerrainHeight(s, targetX, targetZ)
             baseY == MathMax(groundY, WATER_LEVEL)
             targetY == MathRound(baseY)
         IN  [s EXCEPT !.blueprintGroup.position = <<targetX, targetY, targetZ>>]

rebuildBlueprintGroup(s) ==
    IF ~s.blueprintActive
    THEN s
    ELSE LET pos == s.blueprintGroup.position
             removed == IF s.blueprintGroup.isNull THEN 0 ELSE 1
         IN  [s EXCEPT
                !.blueprintGroup =
                    [createBlueprintGroup(getRotatedBlocks(s)) EXCEPT !.position = pos],
                !.sceneGhostGroups = @ - removed + 1]

\* cancelBlueprint that forgets to reset the rotation
cancelBlueprintKeepRotation(s) ==
    IF ~s.blueprintActive
    THEN s
    ELSE [s EXCEPT !.blueprintActive = FALSE,
                   !.sceneGhostGroups =
                       IF s.blueprintGroup.isNull THEN @ ELSE @ - 1,
                   !.blueprintGroup = NullGroup,
                   !.blueprintBlocks = <<>>]

cancelBlueprint(s) ==
    IF ~s.blueprintActive
    THEN s
    ELSE [s EXCEPT !.blueprintActive = FALSE,
                   !.sceneGhostGroups =
                       IF s.blueprintGroup.isNull THEN @ ELSE @ - 1,
                   !.blueprintGroup = NullGroup,
                   !.blueprintBlocks = <<>>,
                   !.blueprintRotation = 0]

\* the loop of placeBlueprint over rotated[i..]
RECURSIVE PlaceEach(_, _, _, _)
PlaceEach(s, rotated, origin, i) ==
    IF i > Len(rotated)
    THEN s
    ELSE LET b == rotated[i]
             wx == JSAdd(JSAdd(origin[1], b.x), 5)
             wy == JSAdd(JSAdd(origin[2], b.y), 5)
             wz == JSAdd(JSAdd(origin[3], b.z), 5)
         IN  PlaceEach(placeBlock([s EXCEPT !.selectedSlot = b.type], wx, wy, wz),
                       rotated, origin, i + 1)

\* placeBlueprint that places every block with the selected slot's material
RECURSIVE PlaceEachSelected(_, _, _, _)
PlaceEachSelected(s, rotated, origin, i) ==
    IF i > Len(rotated)
    THEN s
    ELSE LET b == rotated[i]
         IN  PlaceEachSelected(
                 placeBlock(s, JSAdd(JSAdd(origin[1], b.x), 5),
                            JSAdd(JSAdd(origin[2], b.y), 5),
                            JSAdd(JSAdd(origin[3], b.z), 5)),
                 rotated, origin, i + 1)

placeBlueprintSelected(s) ==
    IF ~s.blueprintActive \/ s.blueprintGroup.isNull
    THEN s
    ELSE cancelBlueprint(PlaceEachSelected(s, getRotatedBlocks(s),
                                           s.blueprintGroup.position, 1))

\* placeBlueprint that does not put the saved slot back
placeBlueprintKeepLast(s) ==
    IF ~s.blueprintActive \/ s.blueprintGroup.isNull
    THEN s
    ELSE cancelBlueprint(PlaceEach(s, getRotatedBlocks(s),
                                   s.blueprintGroup.position, 1))

placeBlueprint(s) ==
    IF ~s.blueprintActive \/ s.blueprintGroup.isNull
    THEN s
    ELSE LET rotated == getRotatedBlocks(s)
             origin == s.blueprintGroup.position
             savedSlot == s.selectedSlot
             placed == PlaceEach(s, rotated, origin, 1)
         IN  cancelBlueprint([placed EXCEPT !.selectedSlot = savedSlot])

-----------------------------------------------------------------------------
(* First-person mode and regeneration *)

\* lock() only requests the pointer lock, isLocked follows when the browser
\* grants it
enterFPMode(s) ==
    [s EXCEPT !.fpMode = TRUE,
              !.camera.x = 200,
              !.camera.y = MathMax(getTerrainHeight(s, 200, 200), 25) + 25,
              !.camera.z = 200]

\* exitFPMode without its cancelBlueprint()
exitFPModeKeepBlueprint(s) ==
    [s EXCEPT !.fpMode = FALSE, !.ghostVisible = FALSE,
              !.camera.x = 600, !.camera.y = 400, !.camera.z = 600]

exitFPMode(s) ==
    LET c == cancelBlueprint([s EXCEPT !.fpMode = FALSE, !.ghostVisible = FALSE])
    IN  [c EXCEPT !.camera.x = 600, !.camera.y = 400, !.camera.z = 600]

activateBlueprint(s, blocks) ==
    LET a == [s EXCEPT !.blueprintBlocks = blocks,
                       !.blueprintRotation = 0,
                       !.blueprintActive = TRUE]
        f == IF ~a.fpMode THEN enterFPMode(a) ELSE a
    IN  [f EXCEPT !.ghostVisible = FALSE,
                  !.blueprintGroup = createBlueprintGroup(getRotatedBlocks(f)),
                  !.sceneGhostGroups = @ + 1]

\* generate without its clearAllBlocks()
generateKeepBlocks(s, seed) ==
    LET e == IF s.fpMode THEN exitFPMode(s) ELSE s
    IN  [e EXCEPT !.currentLandscape = seed]

generate(s, seed) ==
    LET e == IF s.fpMode THEN exitFPMode(s) ELSE s
        c == clearAllBlocks(e)
    IN  [c EXCEPT !.currentLandscape = seed]

-----------------------------------------------------------------------------
(* Structure ingestion: generateStructure after its fetch has settled *)

\* a JSON value's field: a number, or absent, or of another type
Num(n) == [t |-> "number", v |-> n]
Undefined == [t |-> "undefined", v |-> 0]
Str == [t |-> "string", v |-> 0]

\* an element of the parsed array: an object, null, or a primitive
Obj(x, y, z, type) == [kind |-> "object", x |-> x, y |-> y, z |-> z, type |-> type]
NullEntry == [kind |-> "null", x |-> Undefined, y |-> Undefined, z |-> Undefined,
              type |-> Undefined]
PrimEntry == [kind |-> "primitive", x |-> Undefined, y |-> Undefined,
              z |-> Undefined, type |-> Undefined]

\* what a JSON.parse attempt yields: a SyntaxError, or a value that is an
\* array (with its items), another truthy value ("truthy": an object, 7, "a")
\* or a falsy one ("falsy": null, 0, "", false)
ParseFails == [ok |-> FALSE, jtype |-> "none", items |-> <<>>]
ParsesTo(jtype, items) == [ok |-> TRUE, jtype |-> jtype, items |-> items]
Truthy(p) == p.ok /\ p.jtype \in {"array", "truthy"}

\* the settled fetch: it threw, or answered with response.ok false, or with
\* a body whose text is absent, or with a text described by what each of the
\* three extraction attempts finds in it
Response(fetch, hasText, direct, hasFence, fenced, hasBrackets, bracketed) ==
    [fetch |-> fetch, hasText |-> hasText, direct |-> direct,
     hasFence |-> hasFence, fenced |-> fenced,
     hasBrackets |-> hasBrackets, bracketed |-> bracketed]

Returned(blocks) == [isNull |-> FALSE, blocks |-> blocks]
ReturnedNull == [isNull |-> TRUE, blocks |-> <<>>]

\* b.x of a null element throws a TypeError
EntryThrows(b) == b.kind = "null"

EntryValid(b) ==
    b.x.t = "number" /\ b.y.t = "number" /\ b.z.t = "number"

ClampType(f) ==
    IF f.t = "number"
    THEN MathMax(0, MathMin(50, MathRound(f.v))) \div 10
    ELSE DEFAULT_TYPE

ValidatedBlock(b) ==
    Block(MathRound(b.x.v), MathRound(b.y.v), MathRound(b.z.v), ClampType(b.type))

\* one pass of the body of for (const b of blocks) { ... }: it throws on
\* b.x of null, continues past an invalid entry, pushes a valid one and
\* breaks at MAX_BLOCKS; a loop that has thrown or broken runs no more
LoopBody(acc, b) ==
    IF acc.threw \/ acc.broke THEN acc
    ELSE IF EntryThrows(b) THEN [acc EXCEPT !.threw = TRUE]
    ELSE IF ~EntryValid(b) THEN acc
    ELSE LET pushed == Append(acc.validated, ValidatedBlock(b))
         IN  [acc EXCEPT !.validated = pushed, !.broke = Len(pushed) >= MAX_BLOCKS]

\* the passes over items[lo..hi] in order, halving the range so that the
\* evaluation stays shallow on long arrays
RECURSIVE LoopOver(_, _, _, _)
LoopOver(items, lo, hi, acc) ==
    IF lo > hi THEN acc
    ELSE IF lo = hi THEN LoopBody(acc, items[lo])
    ELSE LET mid == (lo + hi) \div 2
             firstHalf == LoopOver(items, lo, mid, acc)
         IN  IF firstHalf.threw \/ firstHalf.broke
             THEN firstHalf
             ELSE LoopOver(items, mid + 1, hi, firstHalf)

ValidateAll(items) ==
    LoopOver(items, 1, Len(items), [threw |-> FALSE, broke |-> FALSE, validated |-> <<>>])

\* the three extraction attempts: direct parse, fenced block, bracketed span
ExtractBlocks(r) ==
    IF r.direct.ok
    THEN r.direct
    ELSE LET afterFence == IF r.hasFence /\ r.fenced.ok THEN r.fenced ELSE ParseFails
             afterBrackets ==
                 IF Truthy(afterFence) THEN afterFence
                 ELSE IF r.hasBrackets /\ r.bracketed.ok THEN r.bracketed
                 ELSE afterFence
         IN  IF Truthy(afterBrackets) THEN afterBrackets ELSE ParseFails

\* generateStructure that hands back an empty list where it should reject
generateStructureEmptyList(r) ==
    IF r.fetch = "throws" THEN ReturnedNull
    ELSE IF r.fetch = "error" THEN ReturnedNull
    ELSE IF ~r.hasText THEN ReturnedNull
    ELSE LET blocks == ExtractBlocks(r)
         IN  IF ~blocks.ok THEN Returned(<<>>)
             ELSE IF blocks.jtype # "array" THEN ReturnedNull
             ELSE LET v == ValidateAll(blocks.items)
                  IN  IF v.threw THEN ReturnedNull ELSE Returned(v.validated)

generateStructure(r) ==
    IF r.fetch = "throws" THEN ReturnedNull
    ELSE IF r.fetch = "error" THEN ReturnedNull
    ELSE IF ~r.hasText THEN ReturnedNull
    ELSE LET blocks == ExtractBlocks(r)
         IN  IF ~blocks.ok THEN ReturnedNull
             ELSE IF blocks.jtype # "array" \/ Len(blocks.items) = 0 THEN ReturnedNull
             ELSE LET v == ValidateAll(blocks.items)
                  IN  IF v.threw THEN ReturnedNull
                      ELSE IF Len(v.validated) = 0 THEN ReturnedNull
                      ELSE Returned(v.validated)

\* setAiLoading that leaves the button enabled
setAiLoadingNoDisable(s, loading) == s

setAiLoading(s, loading) == [s EXCEPT !.aiLoading = loading]

-----------------------------------------------------------------------------
(* Inputs of the handlers *)

Seeds == {42}

\* where first-person movement takes the camera, (x, z)
CamXZ == {<<200, 200>>}

\* the horizontal forward direction of the camera, (x, z) of a unit vector
Forwards == {<<10, 0>>}

\* (x, z) of the points where the aim ray meets the terrain
TerrainXZ == {<<283, 204>>}

\* world-space normals of the block faces the aim ray meets
Normals == {<<0, 10, 0>>}

NoHit == [found |-> FALSE, point |-> <<0, 0, 0>>, normal |-> <<0, 0, 0>>,
          object |-> TerrainMesh]

FoundHit(pt, n, obj) == [found |-> TRUE, point |-> pt, normal |-> n, object |-> obj]

\* aimRay.far: the ray reports no intersection farther than this from the
\* camera, and none with a mesh at an infinite coordinate
WithinReach(s, pt) ==
    /\ \A i \in 1..3 : IsFinite(pt[i])
    /\ (pt[1] - s.camera.x) * (pt[1] - s.camera.x)
         + (pt[2] - s.camera.y) * (pt[2] - s.camera.y)
         + (pt[3] - s.camera.z) * (pt[3] - s.camera.z) <= AIM_FAR * AIM_FAR

\* the centre of the face of normal n of the block mesh m
FaceCentre(m, n) ==
    <<m.position[1] + n[1] \div 2, m.position[2] + n[2] \div 2,
      m.position[3] + n[3] \div 2>>

\* what getAimTarget can return in state s: null, the terrain, or a face of
\* a block of blockGroup
AimTargets(s) ==
    IF s.currentLandscape = 0
    THEN {NoHit}
    ELSE LET onTerrain ==
                 {<<p[1], LandscapeHeight(s.currentLandscape, p[1], p[2]), p[2]>> :
                     p \in TerrainXZ}
             onBlocks ==
                 {<<m, n>> \in BagToSet(s.blockGroup) \X Normals :
                     WithinReach(s, FaceCentre(m, n))}
         IN  {NoHit}
             \cup {FoundHit(pt, <<0, 10, 0>>, TerrainMesh) :
                      pt \in {q \in onTerrain : WithinReach(s, q)}}
             \cup {FoundHit(FaceCentre(f[1], f[2]), f[2], f[1]) : f \in onBlocks}

StoreSize(s) == Cardinality(DOMAIN s.placedBlocks)

NoResponse == Response("none", FALSE, ParseFails, FALSE, ParseFails, FALSE, ParseFails)

\* the record of the handler that ran last, for the handlers that edit the
\* block world or end a blueprint: "place", "remove", "remove-nothing",
\* "commit", "cancel" (right click, Escape or leaving first-person mode),
\* "rotate", "generate", "request", "response"; "other" for every other one.
\* cell is the target cell (the anchor for a commit), occupied tells whether
\* it held a block, wasActive whether a blueprint was active, before it ran
Ran(op, cell, occupied, resp, result) ==
    [op |-> op, cell |-> cell, occupied |-> occupied, resp |-> resp, result |-> result,
     wasActive |-> blueprintActive]

RanOp(op) == Ran(op, <<0, 0, 0>>, FALSE, NoResponse, ReturnedNull)

\* the world cells the blocks of the blueprint of state s are committed to
TargetCells(s) ==
    LET rotated == getRotatedBlocks(s)
        origin == s.blueprintGroup.position
    IN  {blockKey(JSAdd(JSAdd(origin[1], rotated[i].x), 5),
                  JSAdd(JSAdd(origin[2], rotated[i].y), 5),
                  JSAdd(JSAdd(origin[3], rotated[i].z), 5)) : i \in 1..Len(rotated)}

-----------------------------------------------------------------------------
(* The state after the module has loaded: generate() has run once *)

InitApp ==
    /\ placedBlocks = EmptyMap
    /\ blockGroup = EmptyBag
    /\ selectedSlot = 0
    /\ blueprintBlocks = <<>>
    /\ blueprintGroup = NullGroup
    /\ blueprintRotation = 0
    /\ blueprintActive = FALSE
    /\ sceneGhostGroups = 0
    /\ fpMode = FALSE
    /\ isLocked = FALSE
    /\ camera = [x |-> 600, y |-> 400, z |-> 600, fx |-> 10, fz |-> 0]
    /\ currentLandscape \in Seeds
    /\ aiLoading = FALSE
    /\ inFlight = 0
    /\ ghostVisible = FALSE
    /\ last = RanOp("other")

Init ==
    /\ InitApp
    /\ probe = [blocks |-> <<>>, rotated |-> <<>>, times |-> 0]

-----------------------------------------------------------------------------
(* Handlers *)

\* ClickBlock without the exclusion box around the viewer
ClickBlockNoBox(s, button, hit) ==
    IF ~hit.found
    THEN s
    ELSE IF button = 0
    THEN LET pos == getPlacementPos(hit)
         IN  placeBlock(s, pos.x, pos.y, pos.z)
    ELSE IF button = 2
    THEN IF hit.object.isBlock THEN removeBlock(s, hit.object) ELSE s
    ELSE s

\* ClickBlock whose right click removes the block of the cell of the hit
\* point, whatever object was hit
ClickBlockRemoveAtPoint(s, button, hit) ==
    IF ~hit.found
    THEN s
    ELSE IF button = 0
    THEN LET pos == getPlacementPos(hit)
             dx == pos.x - s.camera.x
             dy == pos.y - s.camera.y
             dz == pos.z - s.camera.z
         IN  IF dx < 8 /\ dx > -8 /\ dz < 8 /\ dz > -8 /\ dy > -20 /\ dy < 5
             THEN s
             ELSE placeBlock(s, pos.x, pos.y, pos.z)
    ELSE IF button = 2
    THEN LET k == blockKey(snapToGrid(hit.point[1]), snapToGrid(hit.point[2]),
                           snapToGrid(hit.point[3]))
         IN  IF hit.object.isBlock THEN removeBlock(s, hit.object)
             ELSE IF k \in DOMAIN s.placedBlocks THEN removeBlock(s, s.placedBlocks[k])
             ELSE s
    ELSE s

\* the single-block branch of the mousedown handler, after the blueprint branch
ClickBlock(s, button, hit) ==
    IF ~hit.found
    THEN s
    ELSE IF button = 0
    THEN LET pos == getPlacementPos(hit)
             dx == pos.x - s.camera.x
             dy == pos.y - s.camera.y
             dz == pos.z - s.camera.z
         IN  IF dx < 8 /\ dx > -8 /\ dz < 8 /\ dz > -8 /\ dy > -20 /\ dy < 5
             THEN s
             ELSE placeBlock(s, pos.x, pos.y, pos.z)
    ELSE IF button = 2
    THEN IF hit.object.isBlock THEN removeBlock(s, hit.object) ELSE s
    ELSE s

\* the mousedown handler without its blueprint branch
mousedownSingleOnly(s, button, hit) ==
    IF ~s.fpMode \/ ~s.isLocked THEN s ELSE ClickBlock(s, button, hit)

mousedown(s, button, hit) ==
    IF ~s.fpMode \/ ~s.isLocked
    THEN s
    ELSE IF s.blueprintActive
    THEN IF button = 0 THEN placeBlueprint(s)
         ELSE IF button = 2 THEN cancelBlueprint(s)
         ELSE s
    ELSE ClickBlock(s, button, hit)

\* document 'mousedown'
MouseDown ==
    \E button \in {0, 1, 2}, hit \in AimTargets(St) :
        LET single == fpMode /\ isLocked /\ ~blueprintActive
            commit == fpMode /\ isLocked /\ blueprintActive /\ button = 0
            cancel == fpMode /\ isLocked /\ blueprintActive /\ button = 2
            origin == blueprintGroup.position
            pos == getPlacementPos(hit)
            cell == IF single /\ hit.found /\ button = 0
                    THEN blockKey(pos.x, pos.y, pos.z)
                    ELSE IF single /\ hit.found /\ button = 2 /\ hit.object.isBlock
                    THEN hit.object.blockKey
                    ELSE IF commit THEN origin
                    ELSE <<0, 0, 0>>
            op == IF commit THEN "commit"
                  ELSE IF cancel THEN "cancel"
                  ELSE IF single /\ button = 0 /\ hit.found THEN "place"
                  ELSE IF single /\ button = 2 /\ hit.found /\ hit.object.isBlock
                  THEN "remove"
                  ELSE IF single /\ button = 2 THEN "remove-nothing"
                  ELSE "other"
        IN  /\ (op = "place") =>
                  /\ StoreSize(St) < MaxStore
                  /\ pos.y <= snapToGrid(getTerrainHeight(St, pos.x, pos.z))
                                + 10 * MaxStack
            /\ (op = "commit") => StoreSize(placeBlueprint(St)) <= MaxStore
            /\ Becomes(mousedown(St, button, hit))
            /\ last' = Ran(op, cell,
                           IF commit
                           THEN TargetCells(St) \cap DOMAIN placedBlocks # {}
                           ELSE cell \in DOMAIN placedBlocks,
                           NoResponse, ReturnedNull)
            /\ UNCHANGED probe

\* onKeyDown whose Q key turns clockwise like E
onKeyDownBothCW(s, code) ==
    IF ~s.fpMode
    THEN s
    ELSE IF s.blueprintActive /\ code \in {"KeyQ", "KeyE"}
    THEN rebuildBlueprintGroup(
             [s EXCEPT !.blueprintRotation = (s.blueprintRotation + 1) % 4])
    ELSE IF s.blueprintActive /\ code = "Escape"
    THEN cancelBlueprint(s)
    ELSE IF code = "Digit1" THEN selectSlot(s, 0)
    ELSE IF code = "Digit3" THEN selectSlot(s, 2)
    ELSE s

\* document 'keydown' with e.code one of the keys the handler switches on
onKeyDown(s, code) ==
    IF ~s.fpMode
    THEN s
    ELSE IF s.blueprintActive /\ code = "KeyQ"
    THEN rebuildBlueprintGroup(
             [s EXCEPT !.blueprintRotation = (s.blueprintRotation + 3) % 4])
    ELSE IF s.blueprintActive /\ code = "KeyE"
    THEN rebuildBlueprintGroup(
             [s EXCEPT !.blueprintRotation = (s.blueprintRotation + 1) % 4])
    ELSE IF s.blueprintActive /\ code = "Escape"
    THEN cancelBlueprint(s)
    ELSE IF code = "Digit1" THEN selectSlot(s, 0)
    ELSE IF code = "Digit2" THEN selectSlot(s, 1)
    ELSE IF code = "Digit3" THEN selectSlot(s, 2)
    ELSE IF code = "Digit4" THEN selectSlot(s, 3)
    ELSE IF code = "Digit5" THEN selectSlot(s, 4)
    ELSE IF code = "Digit6" THEN selectSlot(s, 5)
    ELSE s

KeyCodes == {"KeyQ", "KeyE", "Escape", "Digit1", "Digit3"}

KeyDown ==
    \E code \in KeyCodes :
        /\ Becomes(onKeyDown(St, code))
        /\ last' = RanOp(IF fpMode /\ blueprintActive /\ code = "Escape"
                         THEN "cancel"
                         ELSE IF fpMode /\ blueprintActive /\ code \in {"KeyQ", "KeyE"}
                         THEN "rotate"
                         ELSE "other")
        /\ UNCHANGED probe

\* document 'wheel'
wheel(s, deltaY) ==
    IF ~s.fpMode
    THEN s
    ELSE LET dir == IF deltaY > 0 THEN 1 ELSE -1
         IN  selectSlot(s, (s.selectedSlot + dir + NumBlockTypes) % NumBlockTypes)

Wheel ==
    \E deltaY \in {-100, 100} :
        /\ Becomes(wheel(St, deltaY))
        /\ last' = RanOp("other")
        /\ UNCHANGED probe

\* fpvBtn 'click'
FpvClick ==
    /\ Becomes(IF fpMode THEN exitFPMode(St) ELSE enterFPMode(St))
    /\ last' = RanOp(IF fpMode THEN "cancel" ELSE "other")
    /\ UNCHANGED probe

\* generate-btn 'click' and applySeedInput, with the seed they arrive at
Generate ==
    \E seed \in Seeds :
        /\ Becomes(generate(St, seed))
        /\ last' = Ran("generate", <<0, 0, 0>>, StoreSize(St) > 0, NoResponse,
                       ReturnedNull)
        /\ UNCHANGED probe

\* the browser grants the pointer lock that lock() requested, or ends it
\* (Escape, or unlock())
PointerLockChange ==
    /\ isLocked' = IF isLocked THEN FALSE ELSE fpMode
    /\ isLocked' # isLocked
    /\ last' = RanOp("other")
    /\ UNCHANGED <<placedBlocks, blockGroup, selectedSlot, blueprintBlocks,
                   blueprintGroup, blueprintRotation, blueprintActive,
                   sceneGhostGroups, fpMode, camera, currentLandscape, aiLoading,
                   inFlight, ghostVisible, probe>>

\* PointerLockControls' mousemove turns the camera while the pointer is locked
MouseLook ==
    \E f \in Forwards :
        /\ isLocked
        /\ camera' = [camera EXCEPT !.fx = f[1], !.fz = f[2]]
        /\ last' = RanOp("other")
        /\ UNCHANGED <<placedBlocks, blockGroup, selectedSlot, blueprintBlocks,
                       blueprintGroup, blueprintRotation, blueprintActive,
                       sceneGhostGroups, fpMode, isLocked, currentLandscape,
                       aiLoading, inFlight, ghostVisible, probe>>

updateGhostBlock(s, hit) ==
    IF ~s.fpMode \/ ~s.isLocked \/ s.blueprintActive
    THEN [s EXCEPT !.ghostVisible = FALSE]
    ELSE IF ~hit.found
    THEN [s EXCEPT !.ghostVisible = FALSE]
    ELSE LET pos == getPlacementPos(hit)
         IN  IF blockKey(pos.x, pos.y, pos.z) \in DOMAIN s.placedBlocks
             THEN [s EXCEPT !.ghostVisible = FALSE]
             ELSE [s EXCEPT !.ghostVisible = TRUE]

Clamp(v, lo, hi) == MathMax(lo, MathMin(hi, v))

\* the share of the way to its target height the camera covers in a frame,
\* Math.min(1, delta * 8), in tenths
EaseFactors == {10}

\* one animation frame: xz is where movement takes the camera, hit is what
\* getAimTarget returns
animate(s, xz, ease, hit) ==
    IF s.fpMode /\ s.isLocked
    THEN LET x == Clamp(xz[1], -950, 950)
             z == Clamp(xz[2], -950, 950)
             targetY == MathMax(getTerrainHeight(s, x, z), WATER_LEVEL) + 25
             moved == [s EXCEPT
                         !.camera.x = x,
                         !.camera.z = z,
                         !.camera.y = @ + ((targetY - @) * ease) \div 10]
         IN  updateBlueprint(updateGhostBlock(moved, hit))
    ELSE s

Animate ==
    \E xz \in CamXZ \cup {<<camera.x, camera.z>>}, ease \in EaseFactors,
       hit \in AimTargets(St) :
        /\ Becomes(animate(St, xz, ease, hit))
        /\ last' = RanOp("other")
        /\ UNCHANGED probe

\* hotbar slot 'click'
HotbarClick ==
    \E idx \in {1, 4} :
        /\ Becomes(selectSlot(St, idx))
        /\ last' = RanOp("other")
        /\ UNCHANGED probe

\* aiBuildBtn 'click' up to the await of fetch; a disabled button gets no click
buildClick(s, hasPrompt, hasKey) ==
    IF ~hasPrompt THEN s
    ELSE IF ~hasKey THEN s
    ELSE [setAiLoading(s, TRUE) EXCEPT !.inFlight = @ + 1]

BuildClick ==
    \E hasPrompt \in BOOLEAN, hasKey \in BOOLEAN :
        /\ ~aiLoading
        /\ sceneGhostGroups < MaxSceneGroups
        /\ Becomes(buildClick(St, hasPrompt, hasKey))
        /\ last' = RanOp(IF hasPrompt /\ hasKey THEN "request" ELSE "other")
        /\ UNCHANGED probe

\* the rest of generateStructure and of the click handler, once fetch settled
respond(s, r) ==
    LET blocks == generateStructure(r)
        done == [setAiLoading(s, FALSE) EXCEPT !.inFlight = @ - 1]
    IN  IF blocks.isNull THEN done ELSE activateBlueprint(done, blocks.blocks)

Respond(r) ==
    /\ inFlight > 0
    /\ Becomes(respond(St, r))
    /\ last' = Ran("response", <<0, 0, 0>>, FALSE, r, generateStructure(r))
    /\ UNCHANGED probe

-----------------------------------------------------------------------------
(* Responses of the generative service *)

DirectArray(items) ==
    Response("ok", TRUE, ParsesTo("array", items), FALSE, ParseFails, FALSE, ParseFails)

\* the text "not json": no parse, no fence, no brackets
NotJson == Response("ok", TRUE, ParseFails, FALSE, ParseFails, FALSE, ParseFails)

HttpError == Response("error", FALSE, ParseFails, FALSE, ParseFails, FALSE, ParseFails)

FetchThrows == Response("throws", FALSE, ParseFails, FALSE, ParseFails, FALSE, ParseFails)

NoText == Response("ok", FALSE, ParseFails, FALSE, ParseFails, FALSE, ParseFails)

Fenced(items) ==
    Response("ok", TRUE, ParseFails, TRUE, ParsesTo("array", items), FALSE, ParseFails)

Bracketed(items) ==
    Response("ok", TRUE, ParseFails, FALSE, ParseFails, TRUE, ParsesTo("array", items))

\* [{"x":0,"y":0,"z":0,"type":2},{"x":0.4,"y":0,"z":0,"type":3.2},
\*  {"x":1,"y":0,"z":0,"type":3}]: the first two entries round to the offset
\* (0,0,0), the third is the block east of it
ScenarioItems ==
    <<Obj(Num(0), Num(0), Num(0), Num(20)), Obj(Num(4), Num(0), Num(0), Num(32)),
      Obj(Num(10), Num(0), Num(0), Num(30))>>

\* the text "[]", and a text that parses to a value that is no array
EmptyArray == DirectArray(<<>>)
NonArray ==
    Response("ok", TRUE, ParsesTo("truthy", <<>>), FALSE, ParseFails, FALSE, ParseFails)

Responses ==
    {NotJson, HttpError, FetchThrows, EmptyArray, NonArray,
     DirectArray(ScenarioItems)}

RespondAny == \E r \in Responses : Respond(r)

Next ==
    \/ MouseDown
    \/ KeyDown
    \/ FpvClick
    \/ Generate
    \/ PointerLockChange
    \/ MouseLook
    \/ Animate
    \/ BuildClick
    \/ RespondAny

Spec == Init /\ [][Next]_vars

-----------------------------------------------------------------------------
(* Ingestion on its own: every response of a bounded set is fed to         *)
(* generateStructure by the Build click handler.                           *)

\* the elements a response array is made of
EntryPool ==
    { Obj(Num(0), Num(0), Num(0), Num(20)),         \* {"x":0,"y":0,"z":0,"type":2}
      Obj(Num(15), Num(-5), Num(24), Num(76)),      \* {"x":1.5,"y":-0.5,"z":2.4,"type":7.6}
      Obj(Num(250), Num(0), Num(-10), Undefined),   \* {"x":25,"y":0,"z":-1}
      Obj(Num(10), Num(0), Num(0), Num(-30)),       \* {"x":1,"y":0,"z":0,"type":-3}
      Obj(Str, Num(0), Num(0), Num(20)),            \* {"x":"1","y":0,"z":0,"type":2}
      Obj(Num(Infinity), Num(0), Num(0), Str),      \* {"x":1e999,"y":0,"z":0,"type":"2"}
      NullEntry,                                    \* null
      PrimEntry }                                   \* 7

RECURSIVE SeqsUpTo(_, _)
SeqsUpTo(S, n) ==
    IF n = 0 THEN {<<>>}
    ELSE LET shorter == SeqsUpTo(S, n - 1)
         IN  shorter \cup {Append(q, e) : q \in shorter, e \in S}

\* n valid entries {"x":i,"y":0,"z":0,"type":3}, i = 1..n
Padding(n) == [i \in 1..n |-> Obj(Num(10 * i), Num(0), Num(0), Num(30))]

\* arrays that reach the limit of MAX_BLOCKS blocks
LongArrays ==
    {Padding(MAX_BLOCKS - 1) \o tail : tail \in SeqsUpTo(EntryPool, 2)}
    \cup {<<e>> \o Padding(MAX_BLOCKS) : e \in EntryPool}

IngestResponses ==
    {DirectArray(items) : items \in SeqsUpTo(EntryPool, MaxEntries) \cup LongArrays}
    \cup {Fenced(items) : items \in SeqsUpTo(EntryPool, 1)}
    \cup {Bracketed(items) : items \in SeqsUpTo(EntryPool, 1)}
    \cup {NotJson, HttpError, FetchThrows, NoText}
    \cup {Response("ok", TRUE, ParsesTo(t, <<>>), FALSE, ParseFails, FALSE, ParseFails) :
            t \in {"truthy", "falsy"}}
    \cup {Response("ok", TRUE, ParseFails, TRUE, f, TRUE, b) :
            f \in {ParseFails, ParsesTo("falsy", <<>>), ParsesTo("truthy", <<>>)},
            b \in {ParseFails, ParsesTo("array", ScenarioItems)}}

RespondIngest == \E r \in IngestResponses : Respond(r)

NextIngest ==
    \/ BuildClick
    \/ RespondIngest

SpecIngest == Init /\ [][NextIngest]_vars

-----------------------------------------------------------------------------
(* rotateBlocksCW on its own, applied over and over to a block list *)

RotBlocks ==
    {Block(x, y, z, t) : x \in {-10, 0, 20}, y \in {0, 10}, z \in {0, 10}, t \in {2, 3}}

RotLists == SeqsUpTo(RotBlocks, MaxRotLen)

\* the blueprint [{0,0,0,2},{1,0,0,3}]
ScenarioBlueprint == <<Block(0, 0, 0, 2), Block(10, 0, 0, 3)>>

InitRotate ==
    /\ InitApp
    /\ probe \in {[blocks |-> l, rotated |-> l, times |-> 0] :
                    l \in RotLists \cup {ScenarioBlueprint}}

RotateStep ==
    /\ probe.times < 4
    /\ probe' = [probe EXCEPT !.rotated = rotateBlocksCW(@), !.times = @ + 1]
    /\ UNCHANGED <<placedBlocks, blockGroup, selectedSlot, blueprintBlocks,
                   blueprintGroup, blueprintRotation, blueprintActive,
                   sceneGhostGroups, fpMode, isLocked, camera, currentLandscape,
                   aiLoading, inFlight, ghostVisible, last>>

NextRotate == RotateStep

SpecRotate == InitRotate /\ [][NextRotate]_vars

-----------------------------------------------------------------------------
(* Claims *)

\* the number of meshes of the block group that carry the key k
MeshesAt(group, k) ==
    LET ms == {m \in BagToSet(group) : m.blockKey = k}
    IN  BagCardinality([m \in ms |-> group[m]])

\* C1: a placement (a single click or a blueprint commit) leaves every cell
\* that already held a block with its original mesh and material, whatever
\* slot is selected, and with exactly one mesh in the block group.
C1_FirstWriteWins ==
    [][last'.op \in {"place", "commit"} =>
         \A k \in DOMAIN placedBlocks :
             /\ k \in DOMAIN placedBlocks'
             /\ placedBlocks'[k] = placedBlocks[k]
             /\ MeshesAt(blockGroup', k) = 1]_vars

\* a click has targeted an occupied cell while another material was selected
C1_Witness ==
    /\ last.op = "place"
    /\ last.occupied
    /\ last.cell \in DOMAIN placedBlocks
    /\ placedBlocks[last.cell].material # selectedSlot

\* C2: a removal empties exactly the cell of the block it targets and leaves
\* every other entry as it was; a right click that targets no block changes
\* nothing; and no step other than a placement adds an entry.
C2_RemoveExactlyOne ==
    [][/\ last'.op = "remove" =>
            /\ last'.cell \in DOMAIN placedBlocks
            /\ DOMAIN placedBlocks' = DOMAIN placedBlocks \ {last'.cell}
            /\ \A k \in DOMAIN placedBlocks' : placedBlocks'[k] = placedBlocks[k]
            /\ MeshesAt(blockGroup', last'.cell) = 0
       /\ last'.op = "remove-nothing" =>
            /\ placedBlocks' = placedBlocks
            /\ blockGroup' = blockGroup
       /\ last'.op \notin {"place", "commit"} =>
            DOMAIN placedBlocks' \subseteq DOMAIN placedBlocks]_vars

\* one of two placed blocks has been removed and the other is still there
C2_Witness ==
    /\ last.op = "remove"
    /\ last.cell \notin DOMAIN placedBlocks
    /\ Cardinality(DOMAIN placedBlocks) = 1

C4_FourRotations ==
    probe.times = 4 => probe.rotated = probe.blocks

\* a list of two equal blocks off both axes has been rotated four times
C4_Witness ==
    /\ probe.times = 4
    /\ Len(probe.blocks) = 2
    /\ probe.blocks[1] = probe.blocks[2]
    /\ probe.blocks[1].x # 0
    /\ probe.blocks[1].z # 0

\* the cell the i-th block of the rotated list is committed to from origin
CellOf(origin, b) == <<origin[1] + b.x + 5, origin[2] + b.y + 5, origin[3] + b.z + 5>>

\* blocks rotated clockwise n times, offset by offset
Turned(blocks, n) ==
    [i \in 1..Len(blocks) |->
        LET b == blocks[i]
        IN  IF n = 0 THEN b
            ELSE IF n = 1 THEN Block(-b.z, b.y, b.x, b.type)
            ELSE IF n = 2 THEN Block(-b.x, b.y, -b.z, b.type)
            ELSE Block(b.z, b.y, -b.x, b.type)]

\* C5: a commit fills the cell anchor + offset of every block of the rotated
\* set: a free cell gets the material of the first block that targets it, an
\* occupied cell keeps its block, no other cell changes, and the engine ends
\* inactive with no blocks, rotation 0 and no ghost group.
C5_Commit ==
    [][last'.op = "commit" =>
         LET rotated == Turned(blueprintBlocks, blueprintRotation)
             origin == blueprintGroup.position
             cells == {CellOf(origin, rotated[i]) : i \in 1..Len(rotated)}
             first(c) == CHOOSE i \in 1..Len(rotated) :
                            /\ CellOf(origin, rotated[i]) = c
                            /\ \A j \in 1..(i - 1) : CellOf(origin, rotated[j]) # c
         IN  /\ blueprintActive
             /\ last'.cell = origin
             /\ DOMAIN placedBlocks' = DOMAIN placedBlocks \cup cells
             /\ \A k \in DOMAIN placedBlocks : placedBlocks'[k] = placedBlocks[k]
             /\ \A c \in cells \ DOMAIN placedBlocks :
                    /\ placedBlocks'[c].material = rotated[first(c)].type
                    /\ placedBlocks'[c].position = c
                    /\ MeshesAt(blockGroup', c) = 1
             /\ ~blueprintActive'
             /\ blueprintBlocks' = <<>>
             /\ blueprintRotation' = 0
             /\ blueprintGroup'.isNull]_vars

\* a blueprint was committed where one of its cells held a block placed by a
\* click (material 0, which no blueprint block has) and the other was free
C5_Witness ==
    /\ last.op = "commit"
    /\ last.occupied
    /\ Cardinality(DOMAIN placedBlocks) = 2
    /\ \E k \in DOMAIN placedBlocks : placedBlocks[k].material = 3
    /\ \E k \in DOMAIN placedBlocks : placedBlocks[k].material = 0

Inactive(active, blocks, rotation, group, ghostsBefore, ghostsAfter) ==
    /\ ~active
    /\ blocks = <<>>
    /\ rotation = 0
    /\ group.isNull
    /\ ghostsAfter = ghostsBefore - 1

MalformedResponses == {NotJson, EmptyArray, NonArray, HttpError, FetchThrows}

\* C7: sending a request and consuming its response change no block; a
\* malformed response is rejected (null); and a rejected response leaves the
\* blueprint engine and the view mode as they were.
C7_Rejection ==
    [][/\ last'.op \in {"request", "response"} =>
            /\ placedBlocks' = placedBlocks
            /\ blockGroup' = blockGroup
       /\ last'.op = "response" =>
            /\ last'.resp \in MalformedResponses => last'.result.isNull
            /\ last'.result.isNull =>
                 UNCHANGED <<blueprintActive, blueprintBlocks, blueprintRotation,
                             blueprintGroup, sceneGhostGroups, fpMode>>
            /\ ~last'.result.isNull =>
                 /\ blueprintActive'
                 /\ blueprintBlocks' = last'.result.blocks]_vars

\* the text "not json" was rejected while the world held a block
C7_Witness ==
    /\ last.op = "response"
    /\ last.resp = NotJson
    /\ last.result.isNull
    /\ ~blueprintActive
    /\ placedBlocks # EmptyMap

\* an entry with numeric x, y and z
HasNumericXYZ(e) ==
    e.kind = "object" /\ e.x.t = "number" /\ e.y.t = "number" /\ e.z.t = "number"

\* the first (up to MAX_BLOCKS) entries with numeric x, y, z, in their order
FirstValid(items) ==
    LET valid == SelectSeq(items, HasNumericXYZ)
    IN  SubSeq(valid, 1, IF Len(valid) > MAX_BLOCKS THEN MAX_BLOCKS ELSE Len(valid))

\* the block an entry with numeric x, y, z stands for: coordinates rounded,
\* a numeric id rounded and clamped into 0..5, any other id 2
ExpectedBlock(e) ==
    LET id == IF e.type.t # "number" THEN DEFAULT_TYPE
              ELSE IF MathRound(e.type.v) < 0 THEN 0
              ELSE IF MathRound(e.type.v) > (NumBlockTypes - 1) * 10
              THEN NumBlockTypes - 1
              ELSE MathRound(e.type.v) \div 10
    IN  Block(MathRound(e.x.v), MathRound(e.y.v), MathRound(e.z.v), id)

\* the array a response is read as, when its text parses directly to one
ArrayOf(r) == r.direct.items

IsDirectArray(r) ==
    r.fetch = "ok" /\ r.hasText /\ r.direct.ok /\ r.direct.jtype = "array"

\* C8 as stated: a parsed array with at least one entry with numeric x, y, z
\* is accepted, as the blueprint of its valid entries, whatever else it holds.
C8_Original ==
    (last.op = "response" /\ IsDirectArray(last.resp)
        /\ \E i \in 1..Len(ArrayOf(last.resp)) : HasNumericXYZ(ArrayOf(last.resp)[i]))
    => /\ ~last.result.isNull
       /\ last.result.blocks =
              [i \in 1..Len(FirstValid(ArrayOf(last.resp))) |->
                  ExpectedBlock(FirstValid(ArrayOf(last.resp))[i])]

\* C9 as stated: an accepted blueprint has 1 to 500 blocks, one for each of
\* the first valid entries in order, each with integer x, y, z and a
\* material in 0..5 (2 for a missing or non-numeric id).
C9_Original ==
    (last.op = "response" /\ IsDirectArray(last.resp) /\ ~last.result.isNull)
    => LET items == FirstValid(ArrayOf(last.resp))
           blocks == last.result.blocks
       IN  /\ Len(blocks) >= 1
           /\ Len(blocks) <= MAX_BLOCKS
           /\ Len(blocks) = Len(items)
           /\ \A i \in 1..Len(blocks) :
                /\ blocks[i] = ExpectedBlock(items[i])
                /\ IsInteger(blocks[i].x) /\ IsInteger(blocks[i].y)
                /\ IsInteger(blocks[i].z)
                /\ blocks[i].type \in 0..(NumBlockTypes - 1)

\* C10 as stated: the offsets of an active blueprint span at most 20 cells
\* along each axis.
C10_Original ==
    blueprintActive =>
        \A i, j \in 1..Len(blueprintBlocks) :
            /\ blueprintBlocks[i].x - blueprintBlocks[j].x < CUBE_EXTENT * 10
            /\ blueprintBlocks[i].y - blueprintBlocks[j].y < CUBE_EXTENT * 10
            /\ blueprintBlocks[i].z - blueprintBlocks[j].z < CUBE_EXTENT * 10

\* the anchor updateBlueprint computes from the viewer of state s: the
\* rounded point BLUEPRINT_AHEAD units ahead, at round(max(terrain, water))
GroundedAnchor(s) ==
    LET x == MathRound(s.camera.x + s.camera.fx * BLUEPRINT_AHEAD)
        z == MathRound(s.camera.z + s.camera.fz * BLUEPRINT_AHEAD)
    IN  <<x, MathRound(MathMax(getTerrainHeight(s, x, z), WATER_LEVEL)), z>>

\* C11 as stated: every commit uses the grounded anchor, whose y is at or
\* above the water level.
C11_Original ==
    [][last'.op = "commit" =>
         /\ blueprintGroup.position = GroundedAnchor(St)
         /\ blueprintGroup.position[2] >= WATER_LEVEL]_vars

-----------------------------------------------------------------------------
(* getPlacementPos on its own, applied to one raycast hit *)

\* every variable of the application but probe
appVars ==
    <<placedBlocks, blockGroup, selectedSlot, blueprintBlocks, blueprintGroup,
      blueprintRotation, blueprintActive, sceneGhostGroups, fpMode, isLocked,
      camera, currentLandscape, aiLoading, inFlight, ghostVisible, last>>

\* the centres of the cells -MaxCell..MaxCell along an axis, in tenths
CellCentres == {10 * c + 5 : c \in -MaxCell..MaxCell}

\* the face normals of a box mesh that is never rotated, in world space
FaceNormals ==
    {<<10, 0, 0>>, <<-10, 0, 0>>, <<0, 10, 0>>, <<0, -10, 0>>, <<0, 0, 10>>,
     <<0, 0, -10>>}

\* hits on a face of a placed block, and hits on the terrain
PlacementHits ==
    {FoundHit(FaceCentre(NewBlockMesh(x, y, z, 0), n), n, NewBlockMesh(x, y, z, 0)) :
        x \in CellCentres, y \in CellCentres, z \in CellCentres, n \in FaceNormals}
    \cup {FoundHit(<<p[1], LandscapeHeight(42, p[1], p[2]), p[2]>>, <<0, 10, 0>>,
                   TerrainMesh) : p \in TerrainXZ \cup {<<-17, 3>>}}

InitPlacement ==
    /\ InitApp
    /\ probe \in {[hit |-> h, pos |-> <<0, 0, 0>>, done |-> FALSE] : h \in PlacementHits}

PlacementStep ==
    /\ ~probe.done
    /\ LET pos == getPlacementPos(probe.hit)
       IN  probe' = [probe EXCEPT !.pos = <<pos.x, pos.y, pos.z>>, !.done = TRUE]
    /\ UNCHANGED appVars

NextPlacement == PlacementStep

SpecPlacement == InitPlacement /\ [][NextPlacement]_vars

\* C12: for a hit on a placed block the placement cell is the hit block's
\* cell plus the face normal: one unit away along exactly one axis, never
\* the hit block's own cell.
C12_FaceAdjacent ==
    (probe.done /\ probe.hit.object.isBlock) =>
        LET c == probe.hit.object.position
            d == [i \in 1..3 |-> probe.pos[i] - c[i]]
        IN  /\ \A i \in 1..3 : probe.pos[i] = c[i] + probe.hit.normal[i]
            /\ Cardinality({i \in 1..3 : d[i] # 0}) = 1
            /\ \A i \in 1..3 : d[i] \in {-10, 0, 10}
            /\ probe.pos # c

\* the cell below a block was computed from a hit on its bottom face
C12_Witness ==
    /\ probe.done
    /\ probe.hit.object.isBlock
    /\ probe.hit.normal = <<0, -10, 0>>
    /\ probe.pos[2] = probe.hit.object.position[2] - 10

-----------------------------------------------------------------------------
(* One click in single-block mode, over block worlds around the viewer *)

\* cells around a viewer standing at (20, 4.9, 20): the viewer's own column
\* and the next one east, from the terrain's cell up, and the cell of the
\* terrain point the aim ray meets
ClickCells ==
    {<<x, y, 205>> : x \in {205, 215}, y \in {25, 35, 45}} \cup {<<285, 25, 205>>}

\* the block worlds of at most n blocks over ClickCells, as the store
RECURSIVE ClickStores(_)
ClickStores(n) ==
    IF n = 0 THEN {EmptyMap}
    ELSE LET smaller == ClickStores(n - 1)
         IN  smaller \cup
             {st @@ (c :> NewBlockMesh(c[1], c[2], c[3], m)) :
                 st \in smaller, c \in ClickCells, m \in {1, 4}}

InitClick ==
    /\ placedBlocks \in ClickStores(MaxClickStore)
    /\ blockGroup = SetToBag({placedBlocks[k] : k \in DOMAIN placedBlocks})
    /\ selectedSlot \in {0, 3}
    /\ blueprintBlocks = <<>>
    /\ blueprintGroup = NullGroup
    /\ blueprintRotation = 0
    /\ blueprintActive = FALSE
    /\ sceneGhostGroups = 0
    /\ fpMode = TRUE
    /\ isLocked = TRUE
    /\ camera = [x |-> 200, y |-> 49, z |-> 200, fx |-> 10, fz |-> 0]
    /\ currentLandscape \in Seeds
    /\ aiLoading = FALSE
    /\ inFlight = 0
    /\ ghostVisible = FALSE
    /\ last = RanOp("other")
    /\ probe = [done |-> FALSE, button |-> 0, hit |-> NoHit,
                before |-> [placedBlocks |-> placedBlocks, blockGroup |-> blockGroup]]

\* document 'mousedown', once, with the block world before it kept in probe
ClickStep ==
    \E button \in {0, 1, 2}, hit \in AimTargets(St) :
        /\ ~probe.done
        /\ Becomes(mousedown(St, button, hit))
        /\ probe' = [done |-> TRUE, button |-> button, hit |-> hit,
                     before |-> [placedBlocks |-> placedBlocks,
                                 blockGroup |-> blockGroup]]
        /\ UNCHANGED last

NextClick == ClickStep

SpecClick == InitClick /\ [][NextClick]_vars

\* the cell a left click with the hit of probe targets
ClickTarget ==
    LET pos == getPlacementPos(probe.hit)
    IN  <<pos.x, pos.y, pos.z>>

\* the target lies in the exclusion box around the viewer
InExclusionBox(c) ==
    /\ c[1] - camera.x < 8 /\ camera.x - c[1] < 8
    /\ c[3] - camera.z < 8 /\ camera.z - c[3] < 8
    /\ c[2] - camera.y > -20
    /\ c[2] - camera.y < 5

\* C13: a left click with a hit changes nothing when its target cell is
\* occupied or in the exclusion box, and otherwise adds exactly one block of
\* the selected material at the target cell.
C13_LeftClick ==
    (probe.done /\ probe.button = 0 /\ probe.hit.found) =>
        LET c == ClickTarget
            mesh == [isBlock |-> TRUE, blockKey |-> c, position |-> c,
                     material |-> selectedSlot]
        IN  IF c \in DOMAIN probe.before.placedBlocks \/ InExclusionBox(c)
            THEN /\ placedBlocks = probe.before.placedBlocks
                 /\ blockGroup = probe.before.blockGroup
            ELSE /\ DOMAIN placedBlocks = DOMAIN probe.before.placedBlocks \cup {c}
                 /\ \A k \in DOMAIN probe.before.placedBlocks :
                        placedBlocks[k] = probe.before.placedBlocks[k]
                 /\ placedBlocks[c] = mesh
                 /\ blockGroup = probe.before.blockGroup (+) SetToBag({mesh})

\* a left click on the block under the viewer's feet was rejected by the
\* exclusion box although its target cell was free
C13_Witness ==
    /\ probe.done
    /\ probe.button = 0
    /\ probe.hit.found
    /\ probe.hit.object.isBlock
    /\ ClickTarget \notin DOMAIN probe.before.placedBlocks
    /\ InExclusionBox(ClickTarget)
    /\ placedBlocks = probe.before.placedBlocks

\* C14: a right click on the terrain or on nothing changes neither the
\* block world nor the landscape; a right click on a block removes that
\* block's entry and mesh and nothing else.
C14_RightClick ==
    (probe.done /\ probe.button = 2) =>
        /\ currentLandscape \in Seeds
        /\ IF probe.hit.found /\ probe.hit.object.isBlock
           THEN LET k == probe.hit.object.blockKey
                IN  /\ k \in DOMAIN probe.before.placedBlocks
                    /\ DOMAIN placedBlocks = DOMAIN probe.before.placedBlocks \ {k}
                    /\ \A j \in DOMAIN placedBlocks :
                           placedBlocks[j] = probe.before.placedBlocks[j]
                    /\ blockGroup (+) SetToBag({probe.hit.object})
                           = probe.before.blockGroup
           ELSE /\ placedBlocks = probe.before.placedBlocks
                /\ blockGroup = probe.before.blockGroup

\* a right click met the terrain at a point whose cell holds a block, and
\* the block is still there
C14_Witness ==
    /\ probe.done
    /\ probe.button = 2
    /\ probe.hit.found
    /\ ~probe.hit.object.isBlock
    /\ ClickTarget \in DOMAIN placedBlocks
    /\ Cardinality(DOMAIN placedBlocks) = 2

ShownFor(blocks, n) ==
    [i \in 1..Len(blocks) |->
        [position |-> <<Turned(blocks, n)[i].x + 5, Turned(blocks, n)[i].y + 5,
                        Turned(blocks, n)[i].z + 5>>,
         material |-> Turned(blocks, n)[i].type]]

\* C16: while a blueprint is active the rotation step is in 0..3 and the
\* ghost group shows the accepted list rotated clockwise that many times; a
\* Q press steps the rotation back and an E press forward (mod 4), neither
\* changes blueprintBlocks, and Q then E, or E then Q, gives back the
\* rotation and the block set shown.
C16_RotationKeys ==
    blueprintActive =>
        LET q == onKeyDown(St, "KeyQ")
            e == onKeyDown(St, "KeyE")
            qe == onKeyDown(q, "KeyE")
            eq == onKeyDown(e, "KeyQ")
        IN  /\ blueprintRotation \in 0..3
            /\ blueprintGroup.children = ShownFor(blueprintBlocks, blueprintRotation)
            /\ fpMode
            /\ q.blueprintRotation = (blueprintRotation + 3) % 4
            /\ e.blueprintRotation = (blueprintRotation + 1) % 4
            /\ q.blueprintGroup.children = ShownFor(blueprintBlocks, q.blueprintRotation)
            /\ e.blueprintGroup.children = ShownFor(blueprintBlocks, e.blueprintRotation)
            /\ \A s \in {q, e, qe, eq} : s.blueprintBlocks = blueprintBlocks
            /\ \A s \in {qe, eq} :
                   /\ s.blueprintRotation = blueprintRotation
                   /\ s.blueprintGroup.children = blueprintGroup.children

\* rotation keys have brought an active blueprint to the third step
C16_Witness ==
    /\ blueprintActive
    /\ last.op = "rotate"
    /\ blueprintRotation = 3
    /\ blueprintGroup.children # ShownFor(blueprintBlocks, 0)

-----------------------------------------------------------------------------
(* 32-bit words, as <<high half, low half>> of 16 bits each, so that no    *)
(* intermediate value leaves the range of the checker's integers          *)

Half == 65536

\* the int32 bit pattern of an integer
ToWord(n) == <<(n \div Half) % Half, n % Half>>

RECURSIVE XorBits(_, _, _)
XorBits(a, b, bits) ==
    IF bits = 0 THEN 0
    ELSE (((a % 2) + (b % 2)) % 2) + 2 * XorBits(a \div 2, b \div 2, bits - 1)

RECURSIVE OrBits(_, _, _)
OrBits(a, b, bits) ==
    IF bits = 0 THEN 0
    ELSE (IF a % 2 = 1 \/ b % 2 = 1 THEN 1 ELSE 0)
         + 2 * OrBits(a \div 2, b \div 2, bits - 1)

\* the two operations on four bits, tabulated
XorNibble == [a \in 0..15 |-> [b \in 0..15 |-> XorBits(a, b, 4)]]

OrNibble == [a \in 0..15 |-> [b \in 0..15 |-> OrBits(a, b, 4)]]

Xor16(a, b) ==
    XorNibble[a % 16][b % 16]
    + 16 * XorNibble[(a \div 16) % 16][(b \div 16) % 16]
    + 256 * XorNibble[(a \div 256) % 16][(b \div 256) % 16]
    + 4096 * XorNibble[a \div 4096][b \div 4096]

\* a ^ b
Xor32(a, b) == <<Xor16(a[1], b[1]), Xor16(a[2], b[2])>>

\* k | a, for a constant k below 2^8
OrSmall(k, a) ==
    <<a[1], (a[2] \div 256) * 256
            + 16 * OrNibble[(a[2] \div 16) % 16][k \div 16]
            + OrNibble[a[2] % 16][k % 16]>>

\* (a + b) | 0
Add32(a, b) ==
    LET lo == a[2] + b[2]
    IN  <<(a[1] + b[1] + (lo \div Half)) % Half, lo % Half>>

\* a >>> k, for 0 < k < 16
Shr32(a, k) ==
    <<a[1] \div (2 ^ k), (a[2] \div (2 ^ k)) + (a[1] % (2 ^ k)) * (2 ^ (16 - k))>>

\* the 32-bit product of two 16-bit numbers, by bytes
Mul16(a, b) ==
    LET a1 == a \div 256
        a0 == a % 256
        b1 == b \div 256
        b0 == b % 256
        mid == a1 * b0 + a0 * b1
        low == a0 * b0 + (mid % 256) * 256
    IN  <<(a1 * b1 + (mid \div 256) + (low \div Half)) % Half, low % Half>>

\* Math.imul(a, b)
Imul(a, b) ==
    LET ll == Mul16(a[2], b[2])
    IN  <<(ll[1] + Mul16(a[1], b[2])[2] + Mul16(a[2], b[1])[2]) % Half, ll[2]>>

-----------------------------------------------------------------------------
(* Seeded pseudo-random stream *)

\* 0x6d2b79f5
MULBERRY_STEP == <<27947, 31221>>

\* one call of the function mulberry32(seed) returns: the new seed and the
\* 32-bit value u the call returns as u / 4294967296
mulberry32(seed) ==
    LET s == Add32(seed, MULBERRY_STEP)
        t1 == Imul(Xor32(s, Shr32(s, 15)), OrSmall(1, s))
        t2 == Xor32(Add32(t1, Imul(Xor32(t1, Shr32(t1, 7)), OrSmall(61, t1))), t1)
    IN  [seed |-> s, value |-> Xor32(t2, Shr32(t2, 14))]

\* Math.floor(rng() * n) for the value u of a call, 0 < n < 2^15
ScaleFloor(u, n) == (u[1] * n + ((u[2] * n) \div Half)) \div Half

-----------------------------------------------------------------------------
(* Height sampling.  World coordinates are in hundredths of a unit, noise  *)
(* coordinates, noise values and heights in thousandths.                   *)

\* division rounding toward zero
TDiv(a, b) == IF a < 0 THEN 0 - ((0 - a) \div b) ELSE a \div b

RECURSIVE SqrtBetween(_, _, _)
SqrtBetween(n, lo, hi) ==
    IF lo >= hi THEN lo
    ELSE LET mid == (lo + hi + 1) \div 2
         IN  IF mid * mid <= n THEN SqrtBetween(n, mid, hi)
             ELSE SqrtBetween(n, lo, mid - 1)

\* Math.sqrt of a number of millionths, in thousandths
MathSqrt(n) == SqrtBetween(n, 0, 4096)

\* Math.pow(h, 1.8) at h = 0, 0.1, ... 1
POW18 == <<0, 16, 55, 115, 192, 287, 399, 526, 669, 827, 1000>>

\* Math.pow(h, 1.8) for 0 <= h <= 1, linear between the tabulated points
MathPow18(h) ==
    IF h >= 1000 THEN 1000
    ELSE LET k == h \div 100
             lo == POW18[k + 1]
             hi == POW18[k + 2]
         IN  lo + (((hi - lo) * (h % 100)) \div 100)

\* side of the squares on which the noise source is taken as constant
NOISE_CELL == 250

\* noise2D(a, b): the value the noise source built from a table gives
noise2D(tbl, a, b) ==
    tbl[(((a \div NOISE_CELL) * 7 + (b \div NOISE_CELL) * 13) % Len(tbl)) + 1]

RECURSIVE fbmLoop(_, _, _, _, _, _, _, _, _, _, _)
fbmLoop(tbl, x, z, i, octaves, lacunarity, gain, value, amplitude, frequency, max) ==
    IF i >= octaves THEN value \div max
    ELSE fbmLoop(tbl, x, z, i + 1, octaves, lacunarity, gain,
                 value + amplitude * noise2D(tbl, (x * frequency) \div 1000,
                                                  (z * frequency) \div 1000),
                 (amplitude * gain) \div 1000,
                 (frequency * lacunarity) \div 1000,
                 max + amplitude)

fbm(tbl, x, z, octaves, lacunarity, gain) ==
    fbmLoop(tbl, x, z, 0, octaves, lacunarity, gain, 0, 1000, 1000, 0)

\* 0.015
HEIGHT_SCALE == 15

\* dx * dx + dz * dz, in millionths
NormDistSq(x, z, halfSize) ==
    LET dx == TDiv(x * 10, halfSize)
        dz == TDiv(z * 10, halfSize)
    IN  dx * dx + dz * dz

\* Math.pow(dist, 3)
Cube(dist) == (((dist * dist) \div 1000) * dist) \div 1000

\* sampleHeight with the falloff left unclamped
sampleHeightUnclamped(tbl, x, z, halfSize) ==
    LET dist == MathSqrt(NormDistSq(x, z, halfSize))
        falloff == 1000 - Cube(dist)
        h0 == fbm(tbl, (x * HEIGHT_SCALE) \div 100, (z * HEIGHT_SCALE) \div 100,
                  3, 2000, 500)
    IN  (MathPow18((h0 + 1000) \div 2) * falloff) \div 1000

sampleHeight(tbl, x, z, halfSize) ==
    LET dist == MathSqrt(NormDistSq(x, z, halfSize))
        falloff == MathMax(0, 1000 - Cube(dist))
        h0 == fbm(tbl, (x * HEIGHT_SCALE) \div 100, (z * HEIGHT_SCALE) \div 100,
                  3, 2000, 500)
        h1 == (h0 + 1000) \div 2
        h2 == MathPow18(h1)
    IN  (h2 * falloff) \div 1000

-----------------------------------------------------------------------------
(* sampleHeight on its own, over a grid of points and small noise tables *)

MaxGrid == 5

\* the half extent passed by every caller, size / 2 with size = 200
HALF_SIZE == 100

\* grid points 20 units apart, out to the map boundary
GridCoords == {i * 2000 : i \in (0 - MaxGrid)..MaxGrid}

NoiseLevels == {-1000, -400, 300, 1000}

NoiseTables == [1..3 -> NoiseLevels]

InitHeight ==
    /\ InitApp
    /\ probe \in {[x |-> x, z |-> z, noise |-> t, h |-> 0, done |-> FALSE] :
                     x \in GridCoords, z \in GridCoords, t \in NoiseTables}

HeightStep ==
    /\ ~probe.done
    /\ probe' = [probe EXCEPT
                    !.h = sampleHeight(probe.noise, probe.x, probe.z, HALF_SIZE),
                    !.done = TRUE]
    /\ UNCHANGED appVars

NextHeight == HeightStep

SpecHeight == InitHeight /\ [][NextHeight]_vars

-----------------------------------------------------------------------------
(* Scatter passes.  A pass takes the noise table and the seed the stream is *)
(* at, and gives the seed it leaves the stream at, the count it drew and    *)
(* the instances it placed, in order.  Heights, elevations and scales are   *)
(* in thousandths.  The four passes differ in the numbers below only.       *)

\* count = floor(base + rng() * range); x, z = (rng() - 0.5) * size * percent
\* / 100; rejected unless lo <= h <= hi; scale = scaleBase + rng() * scaleRange;
\* y = h * 30 + lift * scale; draws = calls of rng() for a placed instance
TREES ==
    [kind |-> "tree", base |-> 150, range |-> 100, percent |-> 85, lo |-> 120,
     hi |-> 480, scaleBase |-> 700, scaleRange |-> 800, lift |-> 750, draws |-> 2]

ROCKS ==
    [kind |-> "rock", base |-> 80, range |-> 60, percent |-> 85, lo |-> 420,
     hi |-> 880, scaleBase |-> 300, scaleRange |-> 1000, lift |-> 300, draws |-> 7]

FLOWERS ==
    [kind |-> "flower", base |-> 200, range |-> 150, percent |-> 85, lo |-> 130,
     hi |-> 430, scaleBase |-> 600, scaleRange |-> 800, lift |-> 200, draws |-> 3]

\* a chicken is not scaled; its first call of rng() picks its colour
CHICKENS ==
    [kind |-> "chicken", base |-> 15, range |-> 16, percent |-> 80, lo |-> 130,
     hi |-> 430, scaleBase |-> 1000, scaleRange |-> 1, lift |-> 0, draws |-> 4]

\* (rng() - 0.5) * size * percent / 100, in hundredths
Spread(u, size, percent) == ScaleFloor(u, size * percent) - ((size * percent) \div 2)

Placed(kind, x, z, h, y, scale) ==
    [kind |-> kind, x |-> x, z |-> z, h |-> h, y |-> y, scale |-> scale]

\* the seed after n more calls of rng()
RECURSIVE Skip(_, _)
Skip(seed, n) == IF n <= 0 THEN seed ELSE Skip(mulberry32(seed).seed, n - 1)

\* the instance of the given scale is added; seed: the stream after its draws
ScatterPlace(k, st, x, z, h, scale, seed) ==
    [seed |-> seed, i |-> st.i + 1,
     placed |-> Append(st.placed,
                       Placed(k.kind, x, z, h, h * 30 + ((k.lift * scale) \div 1000),
                              scale))]

\* the instance is created: r1 is the first call of rng() after the band test
ScatterInstance(k, st, x, z, h, r1) ==
    ScatterPlace(k, st, x, z, h, k.scaleBase + ScaleFloor(r1.value, k.scaleRange),
                 Skip(r1.seed, k.draws - 1))

\* the band test left out: every candidate becomes an instance
ScatterSampleAnyHeight(k, st, x, z, h, seed) ==
    ScatterInstance(k, st, x, z, h, mulberry32(seed))

\* if (h < lo || h > hi) continue;
ScatterSample(k, st, x, z, h, seed) ==
    IF h < k.lo \/ h > k.hi
    THEN [st EXCEPT !.seed = seed, !.i = @ + 1]
    ELSE ScatterInstance(k, st, x, z, h, mulberry32(seed))

\* the candidate at (x, z), the stream being at seed after the two calls
ScatterCandidate(k, tbl, st, size, x, z, seed) ==
    ScatterSample(k, st, x, z, sampleHeight(tbl, x, z, size \div 2), seed)

\* rx, rz: the two calls of rng() that give x and z
ScatterDraws(k, tbl, st, size, rx, rz) ==
    ScatterCandidate(k, tbl, st, size, Spread(rx.value, size, k.percent),
                     Spread(rz.value, size, k.percent), rz.seed)

ScatterSecond(k, tbl, st, size, rx) ==
    ScatterDraws(k, tbl, st, size, rx, mulberry32(rx.seed))

\* one pass of the loop, i++ included
ScatterBody(k, tbl, st, size) == ScatterSecond(k, tbl, st, size, mulberry32(st.seed))

\* for (; i < hi; i++) from i = lo, the range halved so that the evaluation
\* stays shallow
RECURSIVE ScatterLoop(_, _, _, _, _, _)
ScatterLoop(k, tbl, size, lo, hi, st) ==
    IF st.i >= hi THEN st
    ELSE IF hi - lo <= 1 THEN ScatterBody(k, tbl, st, size)
    ELSE ScatterLoop(k, tbl, size, (lo + hi) \div 2, hi,
                     ScatterLoop(k, tbl, size, lo, (lo + hi) \div 2, st))

ScatterResult(count, st) == [seed |-> st.seed, count |-> count, placed |-> st.placed]

\* rc: the call of rng() that gives the count
ScatterCount(k, tbl, size, rc) ==
    ScatterResult(k.base + ScaleFloor(rc.value, k.range),
                  ScatterLoop(k, tbl, size, 0, k.base + ScaleFloor(rc.value, k.range),
                              [seed |-> rc.seed, i |-> 0, placed |-> <<>>]))

Scatter(k, tbl, seed, size) == ScatterCount(k, tbl, size, mulberry32(seed))

createTrees(tbl, seed, size) == Scatter(TREES, tbl, seed, size)

createRocks(tbl, seed, size) == Scatter(ROCKS, tbl, seed, size)

createFlowers(tbl, seed, size) == Scatter(FLOWERS, tbl, seed, size)

createChickens(tbl, seed, size) == Scatter(CHICKENS, tbl, seed, size)

\* length of the table the noise source keeps
NOISE_TABLE == 16

\* createNoise2D(rng): the table is filled from the stream, one call a cell
RECURSIVE FillNoise(_, _, _)
FillNoise(seed, n, tbl) ==
    IF n = 0 THEN [seed |-> seed, tbl |-> tbl]
    ELSE FillNoise(mulberry32(seed).seed, n - 1,
                   Append(tbl, ScaleFloor(mulberry32(seed).value, 2001) - 1000))

createNoise2D(seed) == FillNoise(seed, NOISE_TABLE, <<>>)

-----------------------------------------------------------------------------
(* generateLandscape, run twice for one seed while Math.random is called   *)
(* in between                                                              *)

MaxLandSeed == 4

MaxAmbientDraws == 3

\* const size = 200
LANDSCAPE_SIZE == 200

\* a stream started from the state of Math.random instead of the seed
AmbientRng(seed, ambient) == ToWord(ambient)

\* const rng = mulberry32(seed)
LandscapeRng(seed, ambient) == ToWord(seed)

\* vertices of the terrain mesh, every fiftieth along each side
TerrainVertices ==
    {<<x, z>> : x \in {-10000, -5000, 0, 5000, 10000},
                z \in {-10000, -5000, 0, 5000, 10000}}

\* createTerrain: the elevation given to each vertex
createTerrain(tbl, size) ==
    [v \in TerrainVertices |-> sampleHeight(tbl, v[1], v[2], size \div 2) * 30]

NoPass == [count |-> 0, placed |-> <<>>]

\* the group, when the terrain has been built and before the first pass
NewLandscape(noise) ==
    [noise |-> noise.tbl, terrain |-> createTerrain(noise.tbl, LANDSCAPE_SIZE),
     trees |-> NoPass, rocks |-> NoPass, flowers |-> NoPass, chickens |-> NoPass,
     rng |-> noise.seed]

\* group.add(...) of what a pass made; the stream is where the pass left it
AddPass(group, name, pass) ==
    [group EXCEPT ![name] = [count |-> pass.count, placed |-> pass.placed],
                  !.rng = pass.seed]

AddTrees(group) ==
    AddPass(group, "trees", createTrees(group.noise, group.rng, LANDSCAPE_SIZE))

AddRocks(group) ==
    AddPass(group, "rocks", createRocks(group.noise, group.rng, LANDSCAPE_SIZE))

AddFlowers(group) ==
    AddPass(group, "flowers", createFlowers(group.noise, group.rng, LANDSCAPE_SIZE))

AddChickens(group) ==
    AddPass(group, "chickens", createChickens(group.noise, group.rng, LANDSCAPE_SIZE))

\* generateLandscape(seed), called when Math.random has been called
\* `ambient' times; the sky and the clouds, built after the last scatter
\* pass, are left out
generateLandscape(seed, ambient) ==
    AddChickens(AddFlowers(AddRocks(AddTrees(
        NewLandscape(createNoise2D(LandscapeRng(seed, ambient)))))))

LandSeeds == 1..MaxLandSeed

InitLandscape ==
    /\ InitApp
    /\ probe \in {[seed |-> s, ambient |-> 0, at |-> <<>>, runs |-> <<>>] :
                     s \in LandSeeds}

\* generateLandscape(seed) is called
GenerateRun ==
    /\ Len(probe.runs) < 2
    /\ probe' = [probe EXCEPT
                    !.runs = Append(@, generateLandscape(probe.seed, probe.ambient)),
                    !.at = Append(@, probe.ambient)]
    /\ UNCHANGED appVars

\* some other code calls Math.random()
MathRandomCall ==
    /\ probe.ambient < MaxAmbientDraws
    /\ probe' = [probe EXCEPT !.ambient = @ + 1]
    /\ UNCHANGED appVars

NextLandscape == GenerateRun \/ MathRandomCall

SpecLandscape == InitLandscape /\ [][NextLandscape]_vars

Kinds == {"trees", "rocks", "flowers", "chickens"}

CountRange(k) ==
    CASE k = "trees" -> 150..249
      [] k = "rocks" -> 80..139
      [] k = "flowers" -> 200..349
      [] k = "chickens" -> 15..30

\* C18, as stated: each pass places a number of instances within its kind's
\* count range, and a sample rejected for its height does not reduce the
\* number placed, which is the count drawn.
C18_Original ==
    \A i \in 1..Len(probe.runs) : \A k \in Kinds :
        /\ probe.runs[i][k].count \in CountRange(k)
        /\ Len(probe.runs[i][k].placed) = probe.runs[i][k].count
        /\ Len(probe.runs[i][k].placed) \in CountRange(k)

\* the height band of the kind of an instance, lowest and highest
Band(kind) ==
    CASE kind = "tree" -> <<120, 480>>
      [] kind = "rock" -> <<420, 880>>
      [] kind = "flower" -> <<130, 430>>
      [] kind = "chicken" -> <<130, 430>>

\* how far from the centre line an instance of the kind may lie, in
\* hundredths: 0.425 of the size, 0.4 for chickens
Extent(kind) ==
    IF kind = "chicken" THEN 40 * LANDSCAPE_SIZE
    ELSE (425 * LANDSCAPE_SIZE) \div 10

\* the height above the terrain at which an instance of the kind is set
Offset(kind, scale) ==
    CASE kind = "tree" -> (750 * scale) \div 1000
      [] kind = "rock" -> (300 * scale) \div 1000
      [] kind = "flower" -> (200 * scale) \div 1000
      [] kind = "chicken" -> 0

KindOf(k) ==
    CASE k = "trees" -> "tree"
      [] k = "rocks" -> "rock"
      [] k = "flowers" -> "flower"
      [] k = "chickens" -> "chicken"

\* C19: every instance a pass places is of the pass's kind, has the height
\* sampled at its own (x, z) within the kind's band, lies within the kind's
\* share of the map, and sits at 30 times that height plus the kind's offset.
C19_PlacedInBand ==
    \A i \in 1..Len(probe.runs) : \A k \in Kinds :
        \A n \in 1..Len(probe.runs[i][k].placed) :
            LET p == probe.runs[i][k].placed[n]
            IN  /\ p.kind = KindOf(k)
                /\ p.h = sampleHeight(probe.runs[i].noise, p.x, p.z,
                                      LANDSCAPE_SIZE \div 2)
                /\ Band(p.kind)[1] <= p.h
                /\ p.h <= Band(p.kind)[2]
                /\ 0 - Extent(p.kind) <= p.x
                /\ p.x <= Extent(p.kind)
                /\ 0 - Extent(p.kind) <= p.z
                /\ p.z <= Extent(p.kind)
                /\ p.y = p.h * 30 + Offset(p.kind, p.scale)

\* a run in which every pass placed instances and rejected candidates
C19_Witness ==
    /\ Len(probe.runs) >= 1
    /\ \A k \in Kinds :
           /\ Len(probe.runs[1][k].placed) > 0
           /\ Len(probe.runs[1][k].placed) < probe.runs[1][k].count

-----------------------------------------------------------------------------
(* Voxel terrain.  blockifyTerrain walks the integer columns of the map and *)
(* pushes block centres into one list per block type.  A pushed centre      *)
(* (ix + 0.5, cy + 0.5, iz + 0.5) is written as the cell <<ix, cy, iz>>.    *)
(* Heights and elevations are in thousandths.                               *)

\* number of columns per axis the walk is taken over, spread evenly over
\* -halfSize .. halfSize - 1
MaxColumns == 6

\* 2.0
WATER_Y == 2000

\* blocks deep per column
DEPTH == 3

\* h < 0.15
SAND_LIMIT == 150

\* h < 0.45
GRASS_LIMIT == 450

\* the block types of the positions map: Dirt, Grass, Stone, Wood, Sand
VoxelTypes == 0..4

EmptyPositions == [t \in VoxelTypes |-> <<>>]

Push(positions, t, cell) == [positions EXCEPT ![t] = Append(@, cell)]

\* surface and fill type with grass under grass
ColumnTypesGrassFill(h) ==
    IF h < SAND_LIMIT THEN [surface |-> 4, fill |-> 4]
    ELSE IF h < GRASS_LIMIT THEN [surface |-> 1, fill |-> 1]
    ELSE [surface |-> 2, fill |-> 2]

ColumnTypes(h) ==
    IF h < SAND_LIMIT THEN [surface |-> 4, fill |-> 4]
    ELSE IF h < GRASS_LIMIT THEN [surface |-> 1, fill |-> 0]
    ELSE [surface |-> 2, fill |-> 2]

\* Math.floor(elevation) with elevation = h * 30
SurfaceCell(h) == (h * 30) \div 1000

RECURSIVE FillLoop(_, _, _, _, _, _)
FillLoop(positions, ix, iz, cy, d, fillType) ==
    IF d >= DEPTH THEN positions
    ELSE IF cy - d < 0 THEN positions
    ELSE FillLoop(Push(positions, fillType, <<ix, cy - d, iz>>),
                  ix, iz, cy, d + 1, fillType)

ColumnEmit(positions, ix, iz, cy, types) ==
    FillLoop(Push(positions, types.surface, <<ix, cy, iz>>),
             ix, iz, cy, 1, types.fill)

\* a column with the water test left out
ColumnNoSkip(positions, ix, iz, h) ==
    ColumnEmit(positions, ix, iz, SurfaceCell(h), ColumnTypes(h))

Column(positions, ix, iz, h) ==
    IF h * 30 < WATER_Y THEN positions
    ELSE ColumnEmit(positions, ix, iz, SurfaceCell(h), ColumnTypes(h))

blockifyColumn(tbl, positions, ix, iz, halfSize) ==
    Column(positions, ix, iz, sampleHeight(tbl, ix * 100, iz * 100, halfSize))

\* the i-th column coordinate of the walk
ColumnAt(i, halfSize) ==
    (0 - halfSize) + (((i - 1) * (2 * halfSize - 1)) \div (MaxColumns - 1))

ColumnCoords(halfSize) == {ColumnAt(i, halfSize) : i \in 1..MaxColumns}

\* the walk keeps its place j and the lists filled so far
RECURSIVE InnerLoop(_, _, _, _)
InnerLoop(tbl, st, ix, halfSize) ==
    IF st.j > MaxColumns THEN st.positions
    ELSE InnerLoop(tbl,
                   [j |-> st.j + 1,
                    positions |-> blockifyColumn(tbl, st.positions, ix,
                                                 ColumnAt(st.j, halfSize),
                                                 halfSize)],
                   ix, halfSize)

RECURSIVE OuterLoop(_, _, _)
OuterLoop(tbl, st, halfSize) ==
    IF st.j > MaxColumns THEN st.positions
    ELSE OuterLoop(tbl,
                   [j |-> st.j + 1,
                    positions |-> InnerLoop(tbl,
                                            [j |-> 1, positions |-> st.positions],
                                            ColumnAt(st.j, halfSize), halfSize)],
                   halfSize)

blockifyTerrain(tbl, size) ==
    OuterLoop(tbl, [j |-> 1, positions |-> EmptyPositions], size \div 2)

InitBlockify ==
    /\ InitApp
    /\ probe \in {[noise |-> t, done |-> FALSE, positions |-> EmptyPositions] :
                     t \in NoiseTables}

BlockifyStep ==
    /\ ~probe.done
    /\ probe' = [probe EXCEPT
                    !.positions = blockifyTerrain(probe.noise, LANDSCAPE_SIZE),
                    !.done = TRUE]
    /\ UNCHANGED appVars

NextBlockify == BlockifyStep

SpecBlockify == InitBlockify /\ [][NextBlockify]_vars

\* the places in the list of type t that hold a block of column (ix, iz)
ColumnPlaces(positions, t, ix, iz) ==
    {i \in 1..Len(positions[t]) :
        positions[t][i][1] = ix /\ positions[t][i][3] = iz}

\* the number of blocks of column (ix, iz) over all the lists
ColumnTotal(positions, ix, iz) ==
    Cardinality({<<t, i>> \in VoxelTypes \X (1..(3 * MaxColumns * MaxColumns)) :
                    i \in ColumnPlaces(positions, t, ix, iz)})

HasBlock(positions, t, cell) ==
    \E i \in 1..Len(positions[t]) : positions[t][i] = cell

\* the material pair of the band a height lies in: sand over sand below
\* 0.15, grass over dirt below 0.45, stone over stone from 0.45 up
BandSurface(h) == IF h < 150 THEN 4 ELSE IF h < 450 THEN 1 ELSE 2

BandFill(h) == IF h < 150 THEN 4 ELSE IF h < 450 THEN 0 ELSE 2

ColumnHeight(ix, iz) ==
    sampleHeight(probe.noise, ix * 100, iz * 100, LANDSCAPE_SIZE \div 2)

\* a column is skipped when its elevation h * 30 is below the water level 2.0
Skipped(h) == h * 30 < 2000

\* C21: every column that is not skipped has exactly one surface block, in
\* the cell at floor(elevation) and of its band's surface material, then at
\* most two fill blocks of the band's fill material in the cells directly
\* beneath it, and nothing else; no block has a negative y; a skipped column
\* has no block at all.
C21_ColumnBlocks ==
    probe.done =>
        \A ix \in ColumnCoords(100), iz \in ColumnCoords(100) :
            IF Skipped(ColumnHeight(ix, iz))
            THEN ColumnTotal(probe.positions, ix, iz) = 0
            ELSE \E n \in 0..2 :
                    /\ ColumnTotal(probe.positions, ix, iz) = 1 + n
                    /\ HasBlock(probe.positions,
                                BandSurface(ColumnHeight(ix, iz)),
                                <<ix, (ColumnHeight(ix, iz) * 30) \div 1000, iz>>)
                    /\ \A d \in 1..n :
                          /\ ((ColumnHeight(ix, iz) * 30) \div 1000) - d >= 0
                          /\ HasBlock(probe.positions,
                                      BandFill(ColumnHeight(ix, iz)),
                                      <<ix,
                                        ((ColumnHeight(ix, iz) * 30) \div 1000) - d,
                                        iz>>)

\* a walk that met a skipped column and a column of each of the three bands
C21_Witness ==
    /\ probe.done
    /\ \E ix \in ColumnCoords(100), iz \in ColumnCoords(100) :
          Skipped(ColumnHeight(ix, iz))
    /\ \E ix \in ColumnCoords(100), iz \in ColumnCoords(100) :
          ~Skipped(ColumnHeight(ix, iz)) /\ ColumnHeight(ix, iz) < 150
    /\ Len(probe.positions[4]) > 0
    /\ Len(probe.positions[1]) > 0
    /\ Len(probe.positions[0]) > 0
    /\ Len(probe.positions[2]) > 0

\* the y cells of the blocks of column (ix, iz), over all the lists
ColumnCellsY(positions, ix, iz) ==
    {positions[t][i][2] : <<t, i>> \in
        {<<t, i>> \in VoxelTypes \X (1..(3 * MaxColumns * MaxColumns)) :
            i \in ColumnPlaces(positions, t, ix, iz)}}

\* C22 as stated: every emitted voxel, surface or fill, has its centre at or
\* above the water level 2.0.
C22_Original ==
    probe.done =>
        \A t \in VoxelTypes : \A i \in 1..Len(probe.positions[t]) :
            probe.positions[t][i][2] * 1000 + 500 >= 2000

\* C22: a column whose elevation is below the water level 2.0 emits nothing,
\* and the topmost voxel of every other column lies at or above the water
\* level; the fill voxels beneath it may lie below the water level.
C22_AboveWaterColumns ==
    probe.done =>
        \A ix \in ColumnCoords(100), iz \in ColumnCoords(100) :
            IF ColumnHeight(ix, iz) * 30 < 2000
            THEN ColumnCellsY(probe.positions, ix, iz) = {}
            ELSE \E top \in ColumnCellsY(probe.positions, ix, iz) :
                    /\ top * 1000 >= 2000
                    /\ \A y \in ColumnCellsY(probe.positions, ix, iz) : y <= top

\* a walk that skipped a column and put a fill block beneath the water level
C22_Witness ==
    /\ probe.done
    /\ \E ix \in ColumnCoords(100), iz \in ColumnCoords(100) :
          /\ ColumnHeight(ix, iz) * 30 < 2000
          /\ ColumnCellsY(probe.positions, ix, iz) = {}
    /\ \E ix \in ColumnCoords(100), iz \in ColumnCoords(100) :
          \E y \in ColumnCellsY(probe.positions, ix, iz) : y * 1000 + 500 < 2000

-----------------------------------------------------------------------------
(* Seed input.  A string is the sequence of its char codes.  A number that *)
(* reaches generate is kept as its sign and its magnitude, the magnitude   *)
(* as a 32-bit word, since Math.abs of -2^31 is 2^31.                      *)

\* longest seed string
MaxSeedLen == 6

\* ' ', '-', '7', 'z'
SeedChars == {32, 45, 55, 122}

SeedStrings == SeqsUpTo(SeedChars, MaxSeedLen)

Number(neg, mag) == [neg |-> neg, mag |-> mag]

\* the white space trim() and parseInt strip, among the char codes below 128
IsWhiteSpace(c) == c \in {9, 10, 11, 12, 13, 32}

IsDigit(c) == c \in 48..57

RECURSIVE TrimStart(_)
TrimStart(str) ==
    IF str # <<>> /\ IsWhiteSpace(Head(str)) THEN TrimStart(Tail(str)) ELSE str

RECURSIVE TrimEnd(_)
TrimEnd(str) ==
    IF str # <<>> /\ IsWhiteSpace(str[Len(str)])
    THEN TrimEnd(SubSeq(str, 1, Len(str) - 1))
    ELSE str

\* String.prototype.trim
trim(str) == TrimEnd(TrimStart(str))

NaN == [nan |-> TRUE, neg |-> FALSE, value |-> 0]

RECURSIVE ParseDigits(_, _, _)
ParseDigits(str, neg, acc) ==
    IF str # <<>> /\ IsDigit(Head(str))
    THEN ParseDigits(Tail(str), neg, acc * 10 + (Head(str) - 48))
    ELSE [nan |-> FALSE, neg |-> neg, value |-> acc]

ParseUnsigned(str, neg) ==
    IF str = <<>> \/ ~IsDigit(Head(str)) THEN NaN ELSE ParseDigits(str, neg, 0)

ParseSigned(str) ==
    IF str # <<>> /\ Head(str) = 45 THEN ParseUnsigned(Tail(str), TRUE)
    ELSE IF str # <<>> /\ Head(str) = 43 THEN ParseUnsigned(Tail(str), FALSE)
    ELSE ParseUnsigned(str, FALSE)

\* parseInt(str, 10)
parseInt(str) == ParseSigned(TrimStart(str))

\* a << k, for 0 < k < 16
Shl32(a, k) ==
    <<(a[1] * (2 ^ k) + (a[2] \div (2 ^ (16 - k)))) % Half, (a[2] * (2 ^ k)) % Half>>

\* (a - b) | 0
Sub32(a, b) ==
    <<(a[1] - b[1] - (IF a[2] < b[2] THEN 1 ELSE 0)) % Half, (a[2] - b[2]) % Half>>

\* the hash with its sign kept
SignedOf(hash) ==
    IF hash[1] >= 32768 THEN Number(TRUE, Sub32(<<0, 0>>, hash))
    ELSE Number(FALSE, hash)

\* Math.abs of an int32
MathAbs(hash) ==
    IF hash[1] >= 32768 THEN Number(FALSE, Sub32(<<0, 0>>, hash))
    ELSE Number(FALSE, hash)

\* ((hash << 5) - hash + val.charCodeAt(i)) | 0
HashStep(hash, c) == Add32(Sub32(Shl32(hash, 5), hash), ToWord(c))

RECURSIVE HashLoop(_, _, _)
HashLoop(val, i, hash) ==
    IF i > Len(val) THEN hash ELSE HashLoop(val, i + 1, HashStep(hash, val[i]))

NoGenerate == [generated |-> FALSE, seed |-> Number(FALSE, <<0, 0>>)]

GenerateWith(seed) == [generated |-> TRUE, seed |-> seed]

SeedOfParsed(val, parsed) ==
    IF parsed.nan THEN GenerateWith(MathAbs(HashLoop(val, 1, <<0, 0>>)))
    ELSE GenerateWith(Number(parsed.neg, ToWord(parsed.value)))

SeedOfTrimmed(val) ==
    IF val = <<>> THEN NoGenerate ELSE SeedOfParsed(val, parseInt(val))

\* the call of generate that applySeedInput makes for the text of the input
applySeedInput(text) == SeedOfTrimmed(trim(text))

InitSeed ==
    /\ InitApp
    /\ probe \in {[text |-> t, done |-> FALSE, call |-> NoGenerate] :
                     t \in SeedStrings}

SeedStep ==
    /\ ~probe.done
    /\ probe' = [probe EXCEPT !.call = applySeedInput(probe.text), !.done = TRUE]
    /\ IF applySeedInput(probe.text).generated
       THEN /\ Becomes(generate(St, applySeedInput(probe.text).seed))
            /\ last' = Ran("generate", <<0, 0, 0>>, StoreSize(St) > 0, NoResponse,
                           ReturnedNull)
       ELSE UNCHANGED appVars

NextSeed == SeedStep

SpecSeed == InitSeed /\ [][NextSeed]_vars

\* the text between its first and its last character that is not white space
Trimmed(text) ==
    IF \A i \in 1..Len(text) : text[i] = 32 THEN <<>>
    ELSE SubSeq(text,
                CHOOSE a \in 1..Len(text) :
                    text[a] # 32 /\ \A i \in 1..(a - 1) : text[i] = 32,
                CHOOSE b \in 1..Len(text) :
                    text[b] # 32 /\ \A i \in (b + 1)..Len(text) : text[i] = 32)

\* the text without a leading minus sign
Unsigned(v) == IF v # <<>> /\ v[1] = 45 THEN Tail(v) ELSE v

\* a text parses as an integer when a decimal digit follows its optional sign
ParsesAsInteger(v) == Unsigned(v) # <<>> /\ Unsigned(v)[1] \in 48..57

\* the number of decimal digits a text starts with
LeadingDigits(u) ==
    CHOOSE n \in 0..Len(u) :
        /\ \A i \in 1..n : u[i] \in 48..57
        /\ n < Len(u) => u[n + 1] \notin 48..57

RECURSIVE DecimalValue(_, _)
DecimalValue(u, n) ==
    IF n = 0 THEN 0 ELSE DecimalValue(u, n - 1) * 10 + (u[n] - 48)

\* carries moved up through three digits to the base 2^16
Carried(hi, mid, lo) ==
    <<hi + ((mid + (lo \div 65536)) \div 65536),
      (mid + (lo \div 65536)) % 65536,
      lo % 65536>>

Times31Plus(f, c) == Carried(f[1] * 31, f[2] * 31, f[3] * 31 + c)

\* hash = hash * 31 + charCode from 0 over the characters, without any
\* wrapping, as three digits to the base 2^16
RECURSIVE Fold31(_, _)
Fold31(v, n) ==
    IF n = 0 THEN <<0, 0, 0>> ELSE Times31Plus(Fold31(v, n - 1), v[n])

\* the absolute value of the signed 32-bit integer with the bits <<hi, lo>>
AbsInt32(hi, lo) ==
    IF hi < 32768 THEN <<hi, lo>>
    ELSE IF lo = 0 THEN <<65536 - hi, 0>>
    ELSE <<65535 - hi, 65536 - lo>>

\* C23 as stated: a text that does not parse as an integer is generated
\* with the absolute value of the unwrapped fold hash * 31 + charCode.
C23_Original ==
    (probe.done /\ probe.text # <<>> /\ Trimmed(probe.text) = probe.text
                /\ ~ParsesAsInteger(probe.text)) =>
        /\ probe.call.generated
        /\ ~probe.call.seed.neg
        /\ Fold31(probe.text, Len(probe.text))[1] = 0
        /\ probe.call.seed.mag = <<Fold31(probe.text, Len(probe.text))[2],
                                   Fold31(probe.text, Len(probe.text))[3]>>

\* C23: a blank text generates nothing; a trimmed text that parses as an
\* integer is generated with that signed integer; every other text is
\* generated with the absolute value of the fold hash * 31 + charCode over
\* its trimmed characters, wrapped to a signed 32-bit integer, which is a
\* non-negative integer.
C23_SeedOfText ==
    probe.done =>
        IF Trimmed(probe.text) = <<>> THEN ~probe.call.generated
        ELSE /\ probe.call.generated
             /\ currentLandscape = probe.call.seed
             /\ IF ParsesAsInteger(Trimmed(probe.text))
                THEN /\ probe.call.seed.neg = (Trimmed(probe.text)[1] = 45)
                     /\ probe.call.seed.mag =
                            <<DecimalValue(Unsigned(Trimmed(probe.text)),
                                  LeadingDigits(Unsigned(Trimmed(probe.text))))
                                  \div 65536,
                              DecimalValue(Unsigned(Trimmed(probe.text)),
                                  LeadingDigits(Unsigned(Trimmed(probe.text))))
                                  % 65536>>
                ELSE /\ ~probe.call.seed.neg
                     /\ probe.call.seed.mag =
                            AbsInt32(Fold31(Trimmed(probe.text),
                                            Len(Trimmed(probe.text)))[2],
                                     Fold31(Trimmed(probe.text),
                                            Len(Trimmed(probe.text)))[3])

\* "zzzzzz": the fold passes 2^31 and the seed is the absolute value of
\* the wrapped fold
C23_Witness ==
    /\ probe.done
    /\ probe.text = <<122, 122, 122, 122, 122, 122>>
    /\ probe.call.generated
    /\ Fold31(probe.text, 6)[2] >= 32768
    /\ probe.call.seed.mag = AbsInt32(Fold31(probe.text, 6)[2], Fold31(probe.text, 6)[3])

-----------------------------------------------------------------------------
(* The application with the Build button clicked while a blueprint is      *)
(* active: the pointer lock ends on Escape without ending first-person     *)
(* mode or the blueprint, and the button is enabled whenever no request is *)
(* loading.                                                                *)

\* ghost groups in the scene beyond which no further request is started
MaxGhostGroups == 2

BuildClickActive ==
    \E hasPrompt \in BOOLEAN, hasKey \in BOOLEAN :
        /\ ~aiLoading
        /\ sceneGhostGroups < MaxGhostGroups
        /\ Becomes(buildClick(St, hasPrompt, hasKey))
        /\ last' = RanOp(IF hasPrompt /\ hasKey THEN "request" ELSE "other")
        /\ UNCHANGED probe

NextGhost ==
    \/ MouseDown
    \/ KeyDown
    \/ FpvClick
    \/ Generate
    \/ PointerLockChange
    \/ BuildClickActive
    \/ RespondAny

SpecGhost == Init /\ [][NextGhost]_vars

\* C24 as stated: at most one blueprint ghost group is attached to the scene,
\* none while no blueprint is active, and a commit or a cancel leaves none
\* attached, also when a result was accepted while a blueprint was active.
C24_Original ==
    /\ sceneGhostGroups <= 1
    /\ ~blueprintActive => sceneGhostGroups = 0

-----------------------------------------------------------------------------
(* Placement and commit with a response whose number is too large for a    *)
(* double: JSON.parse reads 1e999 as Infinity.                             *)

\* [{"x":1e999,"y":0,"z":0,"type":"2"}]
OverflowItems == <<Obj(Num(Infinity), Num(0), Num(0), Str)>>

CellResponses == {DirectArray(ScenarioItems), DirectArray(OverflowItems)}

RespondCells == \E r \in CellResponses : Respond(r)

NextCells ==
    \/ MouseDown
    \/ FpvClick
    \/ PointerLockChange
    \/ Animate
    \/ BuildClick
    \/ RespondCells

SpecCells == Init /\ [][NextCells]_vars

\* C25 as stated: every key of the block store has three coordinates of the
\* form integer + 0.5.
C25_Original ==
    \A k \in DOMAIN placedBlocks :
        \A i \in 1..3 : k[i] > -(2 ^ 30) /\ k[i] < 2 ^ 30 /\ k[i] % 10 = 5

-----------------------------------------------------------------------------

\* C26: the block store and the rendered block group agree: every store key
\* maps to a mesh whose position and recorded key are that key and which is
\* in the group exactly once, as the only mesh of that cell; and every mesh
\* of the group is the store's mesh of its key.
C26_StoreMatchesGroup ==
    /\ \A k \in DOMAIN placedBlocks :
          /\ placedBlocks[k].blockKey = k
          /\ placedBlocks[k].position = k
          /\ CopiesIn(placedBlocks[k], blockGroup) = 1
          /\ MeshesAt(blockGroup, k) = 1
    /\ \A m \in BagToSet(blockGroup) :
          /\ m.blockKey \in DOMAIN placedBlocks
          /\ placedBlocks[m.blockKey] = m

\* a commit whose blueprint named one cell twice has left two blocks
C26_Witness ==
    /\ last.op = "commit"
    /\ Cardinality(DOMAIN placedBlocks) = 2
    /\ BagCardinality(blockGroup) = 2

\* C27: whenever a blueprint is active the application is in first-person
\* mode, after every handler: acceptance of a result enters the mode, and
\* leaving the mode or regenerating the landscape cancels the blueprint.
C27_ActiveInFirstPerson ==
    blueprintActive => fpMode

\* first-person mode was left, by the toggle or by a regeneration, while a
\* blueprint was active
C27_Witness ==
    /\ last.op \in {"cancel", "generate"}
    /\ last.wasActive
    /\ ~fpMode
    /\ ~blueprintActive

\* C28: while a blueprint is active the single-block preview is hidden, and
\* whatever is aimed at, a left click that the handler acts on (first-person
\* mode, pointer locked) ends the blueprint and adds exactly the blueprint's
\* cells to the store, a right click ends it and leaves store and block
\* group as they are, and a click without the pointer lock changes nothing.
C28_BlueprintClicks ==
    blueprintActive =>
        /\ ~ghostVisible
        /\ \A hit \in AimTargets(St) :
              /\ IF fpMode /\ isLocked
                 THEN /\ ~mousedown(St, 0, hit).blueprintActive
                      /\ DOMAIN mousedown(St, 0, hit).placedBlocks
                            = DOMAIN placedBlocks \cup TargetCells(St)
                      /\ \A k \in DOMAIN placedBlocks :
                            mousedown(St, 0, hit).placedBlocks[k] = placedBlocks[k]
                      /\ ~mousedown(St, 2, hit).blueprintActive
                 ELSE /\ mousedown(St, 0, hit) = St
                      /\ mousedown(St, 2, hit) = St
              /\ mousedown(St, 2, hit).placedBlocks = placedBlocks
              /\ mousedown(St, 2, hit).blockGroup = blockGroup

\* a blueprint is active with the pointer locked while the aim is on a placed
\* block, which a single right click would remove, and on a free cell that
\* is none of the blueprint's
C28_Witness ==
    /\ blueprintActive
    /\ fpMode
    /\ isLocked
    /\ \E hit \in AimTargets(St) : hit.found /\ hit.object.isBlock
    /\ \E hit \in AimTargets(St) :
          /\ hit.found
          /\ blockKey(getPlacementPos(hit).x, getPlacementPos(hit).y,
                      getPlacementPos(hit).z)
                \notin DOMAIN placedBlocks \cup TargetCells(St)

-----------------------------------------------------------------------------
(* Slot selection: digit keys, the wheel and the hotbar, between commits *)

NextSlot ==
    \/ MouseDown
    \/ KeyDown
    \/ Wheel
    \/ HotbarClick
    \/ FpvClick
    \/ PointerLockChange
    \/ BuildClick
    \/ RespondAny

SpecSlot == Init /\ [][NextSlot]_vars

\* C29: the selected slot is a valid index 0..5 before and after every
\* handler; a commit leaves it as it was, and every block the commit adds has
\* the material of a blueprint block that targets its cell.
C29_SlotKept ==
    [][/\ selectedSlot \in 0..5
       /\ selectedSlot' \in 0..5
       /\ last'.op = "commit" =>
            /\ selectedSlot' = selectedSlot
            /\ \A k \in DOMAIN placedBlocks' \ DOMAIN placedBlocks :
                  \E i \in 1..Len(blueprintBlocks) :
                      /\ CellOf(blueprintGroup.position,
                                Turned(blueprintBlocks, blueprintRotation)[i]) = k
                      /\ placedBlocks'[k].material = blueprintBlocks[i].type]_vars

\* a commit made with slot 5 selected, which only the wheel selects, has
\* added a block of the blueprint's material 3
C29_Witness ==
    /\ last.op = "commit"
    /\ selectedSlot = 5
    /\ \E k \in DOMAIN placedBlocks : placedBlocks[k].material = 3

-----------------------------------------------------------------------------
(* Requests on their own: every outcome of the fetch, which the browser    *)
(* settles sooner or later by a response or by a network error.            *)

\* [null]: the validation loop throws on the entry
ThrowingArray == DirectArray(<<NullEntry>>)

RequestResponses == Responses \cup {NoText, ThrowingArray}

RespondRequest == \E r \in RequestResponses : Respond(r)

NextRequest ==
    \/ BuildClick
    \/ RespondRequest
    \/ MouseDown
    \/ KeyDown
    \/ PointerLockChange

SpecRequest == Init /\ [][NextRequest]_vars /\ WF_vars(RespondRequest)

\* C30: at most one request is in flight, the Build button is disabled
\* exactly while one is, and every request that started loading comes to an
\* end with the loading state cleared and the button enabled again.
C30_OneRequest ==
    /\ [](inFlight <= 1 /\ (aiLoading <=> inFlight = 1))
    /\ (aiLoading ~> ~aiLoading)

\* a request that ended in a rejection has left the button enabled
C30_Witness ==
    /\ last.op = "response"
    /\ last.result.isNull
    /\ ~aiLoading
    /\ inFlight = 0

====
